---------------------------- MODULE Spec2Model ----------------------------
(***************************************************************************)
(* Model of the universal console of toolchain/kernel.c: platform          *)
(* detection, the mailbox rendezvous and its request blocks, the           *)
(* framebuffer setup, the text scrollback buffer, rendering, manual        *)
(* scrolling and the PS/2 input handlers; of the return value of           *)
(* unified_decrypt of src/main.1.c and src2/main.1copy.c; and of malloc    *)
(* and free of src/memory.c and src2/memory.c.                             *)
(*                                                                         *)
(* The C globals current_platform and console are records; every C         *)
(* function is an operator from the old value of the global it changes to  *)
(* the new one, and every action applies one whole function.               *)
(*                                                                         *)
(* Addresses, register words and colours are 32-bit words <<hi, lo>> of    *)
(* two 16-bit halves.  Counters, sizes and indices are integers; where a   *)
(* uint32_t subtraction on them can wrap (rows_of_height, u32_sub) the     *)
(* wrap is computed, and elsewhere they stay far below 2^31 in every       *)
(* state.  Chars are their ASCII codes.                                    *)
(* The program never reads a pixel back.  Pixels stored inside the         *)
(* framebuffer are not kept; a store beyond it is undefined and may        *)
(* change the console (after_drawing).                                     *)
(***************************************************************************)
EXTENDS Integers, Sequences, FiniteSets, TLC

VARIABLES
    mem,               \* the words read at the probed physical addresses;
                       \* under SpecDecrypt the call of unified_decrypt,
                       \* under SpecHeap the heap of memory.c
    current_platform,  \* static platform_info_t current_platform
    console,           \* static universal_console_t console
    mouse_packet,      \* static uint8_t mouse_packet[3] of handle_mouse_input
    packet_index,      \* static int packet_index of handle_mouse_input
    op,                \* the function that ran last, with its argument
    boot,              \* universal_console_init: its position and locals
    hw                 \* the mailbox, its request blocks and the PS/2 mouse port

vars == <<mem, current_platform, console, mouse_packet, packet_index, op, boot, hw>>

Min(a, b) == IF a < b THEN a ELSE b
Max(a, b) == IF a > b THEN a ELSE b

(* 32-bit words *)
H16 == 256 * 256
Word(hi, lo)  == <<hi, lo>>
WordAdd(a, b) == <<(a[1] + b[1] + ((a[2] + b[2]) \div H16)) % H16, (a[2] + b[2]) % H16>>
LowByte(w)    == w[2] % 256
WORD_ZERO     == <<0, 0>>
WordOf(n)     == <<n \div H16, n % H16>>
WordLess(a, b) == a[1] < b[1] \/ (a[1] = b[1] /\ a[2] < b[2])
(* a - b in uint32_t, for a and b below 2^31 *)
u32_sub(a, b) ==
    IF a >= b THEN WordOf(a - b)
    ELSE <<H16 - 1 - ((b - a - 1) \div H16), H16 - 1 - ((b - a - 1) % H16)>>
WORD_ONES     == <<65535, 65535>>

-----------------------------------------------------------------------------
(* platform_type_t *)
PLATFORM_UNKNOWN        == 0
PLATFORM_PI_BCM2835     == 1
PLATFORM_PI_BCM2836     == 2
PLATFORM_PI_BCM2837     == 3
PLATFORM_PI_BCM2837B0   == 4
PLATFORM_PI_BCM2711     == 5
PLATFORM_QEMU_VERSATILE == 6

BCM2835_PERIPHERAL_BASE == <<8192, 0>>      \* 0x20000000
BCM2836_PERIPHERAL_BASE == <<16128, 0>>     \* 0x3F000000
BCM2711_PERIPHERAL_BASE == <<65024, 0>>     \* 0xFE000000

QEMU_PL050_KBD_BASE     == <<4096, 28672>>  \* 0x10007000
QEMU_PL050_MOUSE_BASE   == <<4096, 32768>>  \* 0x10008000
QEMU_PL011_UART_BASE    == <<4127, 4096>>   \* 0x101F1000
QEMU_PERIPHERAL_BASE    == <<4096, 0>>      \* 0x10000000

GPIO_OFFSET             == <<32, 0>>        \* 0x200000
UART_OFFSET             == <<32, 4096>>     \* 0x201000
MAILBOX_OFFSET          == <<0, 47232>>     \* 0x00B880
USB_OFFSET              == <<152, 0>>       \* 0x980000
MAILBOX_STATUS          == <<0, 24>>        \* 0x18
PL050_STAT              == <<0, 4>>         \* 0x04
ARM_TIMER_OFFSET        == <<4, 0>>         \* 0x40000

(* The four addresses detect_platform reads. *)
QemuKbdStatusAddr   == WordAdd(QEMU_PL050_KBD_BASE, PL050_STAT)
Bcm2711MailboxAddr  == WordAdd(WordAdd(BCM2711_PERIPHERAL_BASE, MAILBOX_OFFSET), MAILBOX_STATUS)
Bcm2836MailboxAddr  == WordAdd(WordAdd(BCM2836_PERIPHERAL_BASE, MAILBOX_OFFSET), MAILBOX_STATUS)
Bcm2836ArmTimerAddr == WordAdd(BCM2836_PERIPHERAL_BASE, ARM_TIMER_OFFSET)

ProbeAddrs ==
    {QemuKbdStatusAddr, Bcm2711MailboxAddr, Bcm2836MailboxAddr, Bcm2836ArmTimerAddr}

(* Words a probed address may hold: all-zero, all-one, a word whose low     *)
(* byte is 0xFF (0x1FF), a word whose low byte is 0x00 (0x100), the idle    *)
(* PL050 status 0x43 and the mailbox status word EMPTY (0x40000000).        *)
ProbeValues == {WORD_ZERO, WORD_ONES, <<0, 511>>, <<0, 256>>, <<0, 67>>, <<16384, 0>>}

(* static platform_info_t current_platform = {0}; *)
ZeroPlatform ==
    [platform |-> PLATFORM_UNKNOWN, peripheral_base |-> WORD_ZERO,
     mailbox_base |-> WORD_ZERO, gpio_base |-> WORD_ZERO,
     uart_base |-> WORD_ZERO, usb_base |-> WORD_ZERO, name |-> "",
     has_usb |-> FALSE, has_ps2 |-> FALSE]

(* safe_peek32: the word read, and whether it is neither all-one nor       *)
(* all-zero.                                                               *)
safe_peek32(address, m) ==
    [value |-> m[address],
     ok    |-> (m[address] # WORD_ONES /\ m[address] # WORD_ZERO)]

(* A chip branch written without the assignment of usb_base. *)
chip_profile_no_usb_base(cp, platform, base, name) ==
    [cp EXCEPT !.platform        = platform,
               !.peripheral_base = base,
               !.mailbox_base    = WordAdd(base, MAILBOX_OFFSET),
               !.gpio_base       = WordAdd(base, GPIO_OFFSET),
               !.uart_base       = WordAdd(base, UART_OFFSET),
               !.name            = name,
               !.has_usb         = TRUE,
               !.has_ps2         = FALSE]

(* The assignments of a chip-family branch of detect_platform. *)
chip_profile(cp, platform, base, name) ==
    [cp EXCEPT !.platform        = platform,
               !.peripheral_base = base,
               !.mailbox_base    = WordAdd(base, MAILBOX_OFFSET),
               !.gpio_base       = WordAdd(base, GPIO_OFFSET),
               !.uart_base       = WordAdd(base, UART_OFFSET),
               !.usb_base        = WordAdd(base, USB_OFFSET),
               !.name            = name,
               !.has_usb         = TRUE,
               !.has_ps2         = FALSE]

qemu_profile(cp) ==
    [cp EXCEPT !.platform        = PLATFORM_QEMU_VERSATILE,
               !.peripheral_base = QEMU_PERIPHERAL_BASE,
               !.mailbox_base    = WORD_ZERO,
               !.gpio_base       = QEMU_PL050_KBD_BASE,
               !.uart_base       = QEMU_PL011_UART_BASE,
               !.usb_base        = WORD_ZERO,
               !.name            = "QEMU ARM Versatile PB",
               !.has_usb         = FALSE,
               !.has_ps2         = TRUE]

(* The BCM2836/2837 branch of detect_platform written so that a failed     *)
(* timer probe also selects BCM2837.                                       *)
detect_bcm2836_family_always_2837(cp, m) ==
    chip_profile(cp, PLATFORM_PI_BCM2837, BCM2836_PERIPHERAL_BASE,
                 "Raspberry Pi 2/3/Zero2W (BCM2836/2837)")

(* The BCM2836/2837 branch of detect_platform: the ARM timer probe picks   *)
(* the sub-revision.                                                       *)
detect_bcm2836_family(cp, m) ==
    IF safe_peek32(Bcm2836ArmTimerAddr, m).ok
    THEN chip_profile(cp, PLATFORM_PI_BCM2837, BCM2836_PERIPHERAL_BASE,
                      "Raspberry Pi 2/3/Zero2W (BCM2836/2837)")
    ELSE chip_profile(cp, PLATFORM_PI_BCM2836, BCM2836_PERIPHERAL_BASE,
                      "Raspberry Pi 2 (BCM2836)")

(* detect_platform probing the BCM2711 mailbox before the emulator. *)
detect_platform_emulator_second(cp, m) ==
    LET kbd == safe_peek32(QemuKbdStatusAddr, m) IN
    IF safe_peek32(Bcm2711MailboxAddr, m).ok
    THEN chip_profile(cp, PLATFORM_PI_BCM2711, BCM2711_PERIPHERAL_BASE,
                      "Raspberry Pi 4/400/CM4 (BCM2711)")
    ELSE IF kbd.ok /\ LowByte(kbd.value) # 255
    THEN qemu_profile(cp)
    ELSE IF safe_peek32(Bcm2836MailboxAddr, m).ok
    THEN detect_bcm2836_family(cp, m)
    ELSE chip_profile(cp, PLATFORM_PI_BCM2835, BCM2835_PERIPHERAL_BASE,
                      "Raspberry Pi 1/Zero (BCM2835)")

(* detect_platform probing the BCM2836 mailbox before the BCM2711 one. *)
detect_platform_wrong_order(cp, m) ==
    LET kbd == safe_peek32(QemuKbdStatusAddr, m) IN
    IF kbd.ok /\ LowByte(kbd.value) # 255
    THEN qemu_profile(cp)
    ELSE IF safe_peek32(Bcm2836MailboxAddr, m).ok
    THEN detect_bcm2836_family(cp, m)
    ELSE IF safe_peek32(Bcm2711MailboxAddr, m).ok
    THEN chip_profile(cp, PLATFORM_PI_BCM2711, BCM2711_PERIPHERAL_BASE,
                      "Raspberry Pi 4/400/CM4 (BCM2711)")
    ELSE chip_profile(cp, PLATFORM_PI_BCM2835, BCM2835_PERIPHERAL_BASE,
                      "Raspberry Pi 1/Zero (BCM2835)")

(* detect_platform: current_platform as the function leaves it; the value  *)
(* it returns is the platform field.                                       *)
detect_platform(cp, m) ==
    LET kbd == safe_peek32(QemuKbdStatusAddr, m) IN
    IF kbd.ok /\ LowByte(kbd.value) # 255
    THEN qemu_profile(cp)
    ELSE IF safe_peek32(Bcm2711MailboxAddr, m).ok
    THEN chip_profile(cp, PLATFORM_PI_BCM2711, BCM2711_PERIPHERAL_BASE,
                      "Raspberry Pi 4/400/CM4 (BCM2711)")
    ELSE IF safe_peek32(Bcm2836MailboxAddr, m).ok
    THEN detect_bcm2836_family(cp, m)
    ELSE chip_profile(cp, PLATFORM_PI_BCM2835, BCM2835_PERIPHERAL_BASE,
                      "Raspberry Pi 1/Zero (BCM2835)")

-----------------------------------------------------------------------------
(* Console configuration *)
FONT_WIDTH        == 8
FONT_HEIGHT       == 16
MIN_CONSOLE_COLS  == 40
MIN_CONSOLE_ROWS  == 15
MAX_BUFFER_LINES  == 3000
STATUS_BAR_HEIGHT == FONT_HEIGHT

COLOR_BLACK       == <<65280, 0>>       \* 0xFF000000
COLOR_BLUE        == <<65280, 170>>     \* 0xFF0000AA
COLOR_YELLOW      == <<65535, 65365>>   \* 0xFFFFFF55
COLOR_WHITE       == <<65535, 65535>>   \* 0xFFFFFFFF

QEMU_FRAMEBUFFER  == <<32, 0>>          \* (uint32_t *)0x200000
QEMU_WIDTH        == 640
QEMU_HEIGHT       == 480

PL050_STAT_RXFULL == 16            \* 0x10

(* (int8_t)b of a uint8_t b. *)
ToInt8(b)   == IF b >= 128 THEN b - 256 ELSE b

(* console_cell_t as init_console_buffer and console_clear write it. *)
BlankCell ==
    [character |-> 32, foreground |-> COLOR_WHITE, background |-> COLOR_BLACK,
     attributes |-> 0]

(* static universal_console_t console = {0}.  buffer maps a cell index of  *)
(* static_buffer to its cell; an index outside its domain holds BlankCell. *)
(* shift_scrolls is a ghost field counting executions of scroll_buffer_up. *)
ZeroConsole ==
    [framebuffer |-> WORD_ZERO, width |-> 0, height |-> 0, pitch |-> 0,
     console_cols |-> 0, console_rows |-> 0,
     buffer |-> [i \in {} |-> BlankCell], buffer_lines |-> 0,
     current_line |-> 0, current_col |-> 0, display_start |-> 0,
     current_fg |-> WORD_ZERO, current_bg |-> WORD_ZERO,
     cursor_visible |-> FALSE, cursor_blink_counter |-> 0,
     mouse_x |-> 0, mouse_y |-> 0, mouse_buttons |-> 0,
     mouse_available |-> FALSE, keyboard_available |-> FALSE,
     total_chars |-> 0, scroll_position |-> 0,
     shift_scrolls |-> 0]

(* console.buffer[idx] *)
cell_at(buf, idx) == IF idx \in DOMAIN buf THEN buf[idx] ELSE BlankCell

(* console.buffer[idx] = cell *)
store_cell(buf, idx, cell) ==
    IF cell = BlankCell
    THEN [i \in DOMAIN buf \ {idx} |-> buf[i]]
    ELSE [i \in DOMAIN buf \cup {idx} |-> IF i = idx THEN cell ELSE buf[i]]

(* The emulator branch of setup_framebuffer with the pitch in bytes. *)
setup_framebuffer_qemu_byte_pitch(con, width, height) ==
    [con EXCEPT !.framebuffer  = QEMU_FRAMEBUFFER,
                !.width        = width,
                !.height       = height,
                !.pitch        = width * 4,
                !.console_cols = width \div FONT_WIDTH,
                !.console_rows = (height - STATUS_BAR_HEIGHT) \div FONT_HEIGHT]

(* setup_framebuffer on the emulator: the fixed RAM framebuffer and the    *)
(* console dimensions of the given display size.                           *)
setup_framebuffer_qemu(con, width, height) ==
    [con EXCEPT !.framebuffer  = QEMU_FRAMEBUFFER,
                !.width        = width,
                !.height       = height,
                !.pitch        = width,
                !.console_cols = width \div FONT_WIDTH,
                !.console_rows = (height - STATUS_BAR_HEIGHT) \div FONT_HEIGHT]

(* init_console_buffer, for a buffer of max_buffer_lines lines. *)
init_console_buffer(con, max_buffer_lines) ==
    [con EXCEPT !.buffer_lines    = max_buffer_lines,
                !.buffer          = [i \in {} |-> BlankCell],
                !.current_line    = 0,
                !.current_col     = 0,
                !.display_start   = 0,
                !.current_fg      = COLOR_WHITE,
                !.current_bg      = COLOR_BLACK,
                !.cursor_visible  = TRUE,
                !.scroll_position = 0]

NoCell == -1

(* get_cell: the index of the cell, or NoCell for NULL. *)
get_cell(con, line, col) ==
    IF col >= con.console_cols \/ line >= con.buffer_lines
    THEN NoCell
    ELSE line * con.console_cols + col

(* scroll_buffer_up clearing the last line to white on black. *)
scroll_buffer_up_default_colours(con) ==
    LET cpl == con.console_cols
        old == con.buffer
        last_line_start == (con.buffer_lines - 1) * cpl
        moved == {i - cpl : i \in {j \in DOMAIN old : j >= cpl}}
        kept  == {i \in moved : i < last_line_start}
    IN [con EXCEPT
          !.buffer = [i \in kept |-> old[i + cpl]],
          !.shift_scrolls = @ + 1]

(* scroll_buffer_up without the clearing of the last line. *)
scroll_buffer_up_no_clear(con) ==
    LET cpl == con.console_cols
        old == con.buffer
        last_line_start == (con.buffer_lines - 1) * cpl
        moved == {i - cpl : i \in {j \in DOMAIN old : j >= cpl}}
        stale == {j \in DOMAIN old : j >= last_line_start}
    IN [con EXCEPT
          !.buffer = [i \in moved \cup stale |->
                         IF i >= last_line_start THEN old[i] ELSE old[i + cpl]],
          !.shift_scrolls = @ + 1]

(* scroll_buffer_up: every line takes the cells of the line below it, and  *)
(* the last line is cleared to the pending colours.                        *)
scroll_buffer_up(con) ==
    LET cpl == con.console_cols
        old == con.buffer
        last_line_start == (con.buffer_lines - 1) * cpl
        cleared == [character |-> 32, foreground |-> con.current_fg,
                    background |-> con.current_bg, attributes |-> 0]
        moved == {i - cpl : i \in {j \in DOMAIN old : j >= cpl}}
        last  == IF cleared = BlankCell THEN {}
                 ELSE last_line_start .. (last_line_start + cpl - 1)
        kept  == {i \in moved : i < last_line_start}
    IN [con EXCEPT
          !.buffer = [i \in kept \cup last |->
                         IF i >= last_line_start THEN cleared ELSE old[i + cpl]],
          !.shift_scrolls = @ + 1]

-----------------------------------------------------------------------------
(* Console output *)

(* The auto-follow step written to move the window only. *)
auto_follow_window_only(con) ==
    IF con.current_line >= con.display_start + con.console_rows
    THEN [con EXCEPT
            !.display_start   = con.current_line - con.console_rows + 1]
    ELSE con

(* The auto-follow step written to fire one line late. *)
auto_follow_late(con) ==
    IF con.current_line > con.display_start + con.console_rows
    THEN [con EXCEPT
            !.display_start   = con.current_line - con.console_rows + 1,
            !.scroll_position = con.current_line - con.console_rows + 1]
    ELSE con

(* console_putchar, case '\n': the auto-follow step. *)
auto_follow(con) ==
    IF con.current_line >= con.display_start + con.console_rows
    THEN [con EXCEPT
            !.display_start   = con.current_line - con.console_rows + 1,
            !.scroll_position = con.current_line - con.console_rows + 1]
    ELSE con

(* console_putchar, case '\n': the shift-scroll at buffer exhaustion. *)
shift_scroll(con) ==
    IF con.current_line >= con.buffer_lines
    THEN [scroll_buffer_up(con) EXCEPT !.current_line = con.buffer_lines - 1]
    ELSE con

(* console_putchar, case '\n'. *)
putchar_newline(con) ==
    auto_follow(shift_scroll(
        [con EXCEPT !.current_col = 0, !.current_line = @ + 1]))

(* console_putchar, case '\t', rounding the column up to a tab stop. *)
putchar_tab_round_up(con) ==
    LET c1 == [con EXCEPT !.current_col = ((@ + 7) \div 8) * 8]
    IN IF c1.current_col >= c1.console_cols THEN putchar_newline(c1) ELSE c1

(* console_putchar, case '\t', written without the wrap. *)
putchar_tab_no_wrap(con) ==
    [con EXCEPT !.current_col = ((con.current_col + 8) \div 8) * 8]

(* console_putchar, case '\t': (current_col + 8) & ~7. *)
putchar_tab(con) ==
    LET c1 == [con EXCEPT !.current_col = ((@ + 8) \div 8) * 8]
    IN IF c1.current_col >= c1.console_cols THEN putchar_newline(c1) ELSE c1

(* console_putchar, case '\b', going back to the line above from column 0. *)
putchar_backspace_crossing_lines(con) ==
    IF con.current_col > 0 \/ con.current_line > 0
    THEN LET c1   == IF con.current_col > 0
                     THEN [con EXCEPT !.current_col = @ - 1]
                     ELSE [con EXCEPT !.current_col = con.console_cols - 1,
                                      !.current_line = @ - 1]
             cell == get_cell(c1, c1.current_line, c1.current_col)
         IN [c1 EXCEPT !.buffer = store_cell(@, cell,
                     [cell_at(c1.buffer, cell) EXCEPT
                        !.character  = 32,
                        !.foreground = c1.current_fg,
                        !.background = c1.current_bg])]
    ELSE con

(* console_putchar, case '\b'. *)
putchar_backspace(con) ==
    IF con.current_col > 0
    THEN LET c1   == [con EXCEPT !.current_col = @ - 1]
             cell == get_cell(c1, c1.current_line, c1.current_col)
         IN IF cell # NoCell
            THEN [c1 EXCEPT !.buffer = store_cell(@, cell,
                     [cell_at(c1.buffer, cell) EXCEPT
                        !.character  = 32,
                        !.foreground = c1.current_fg,
                        !.background = c1.current_bg])]
            ELSE c1
    ELSE con

(* The default case storing the colour's low 24 bits as the foreground. *)
putchar_printable_rgb_only(con, c) ==
    IF c >= 32 /\ c <= 126
    THEN LET cell == get_cell(con, con.current_line, con.current_col)
             c1 == IF cell # NoCell
                   THEN [con EXCEPT !.buffer = store_cell(@, cell,
                            [character  |-> c,
                             foreground |-> <<con.current_fg[1] % 256, con.current_fg[2]>>,
                             background |-> con.current_bg,
                             attributes |-> 0])]
                   ELSE con
             c2 == [c1 EXCEPT !.current_col = @ + 1,
                              !.total_chars = @ + 1]
         IN IF c2.current_col >= c2.console_cols THEN putchar_newline(c2) ELSE c2
    ELSE con

(* The default case taking DEL for a printable character. *)
putchar_printable_with_del(con, c) ==
    IF c >= 32 /\ c <= 127
    THEN LET cell == get_cell(con, con.current_line, con.current_col)
             c1 == IF cell # NoCell
                   THEN [con EXCEPT !.buffer = store_cell(@, cell,
                            [character  |-> c,
                             foreground |-> con.current_fg,
                             background |-> con.current_bg,
                             attributes |-> 0])]
                   ELSE con
             c2 == [c1 EXCEPT !.current_col = @ + 1,
                              !.total_chars = @ + 1]
         IN IF c2.current_col >= c2.console_cols THEN putchar_newline(c2) ELSE c2
    ELSE con

(* console_putchar, default case: a printable character, or nothing. *)
putchar_printable(con, c) ==
    IF c >= 32 /\ c <= 126
    THEN LET cell == get_cell(con, con.current_line, con.current_col)
             c1 == IF cell # NoCell
                   THEN [con EXCEPT !.buffer = store_cell(@, cell,
                            [character  |-> c,
                             foreground |-> con.current_fg,
                             background |-> con.current_bg,
                             attributes |-> 0])]
                   ELSE con
             c2 == [c1 EXCEPT !.current_col = @ + 1,
                              !.total_chars = @ + 1]
         IN IF c2.current_col >= c2.console_cols THEN putchar_newline(c2) ELSE c2
    ELSE con

(* console_putchar *)
console_putchar(con, c) ==
    CASE c = 10 -> putchar_newline(con)
      [] c = 13 -> [con EXCEPT !.current_col = 0]
      [] c = 9  -> putchar_tab(con)
      [] c = 8  -> putchar_backspace(con)
      [] OTHER  -> putchar_printable(con, c)

(* console_set_color *)
console_set_color(con, fg, bg) ==
    [con EXCEPT !.current_fg = fg, !.current_bg = bg]

(* console_clear; its render_console call writes pixels only. *)
console_clear(con) ==
    LET buffer_size == con.buffer_lines * con.console_cols
    IN [con EXCEPT
          !.buffer = [i \in {j \in DOMAIN con.buffer : j >= buffer_size} |-> con.buffer[i]],
          !.current_line    = 0,
          !.current_col     = 0,
          !.display_start   = 0,
          !.scroll_position = 0,
          !.total_chars     = 0]

-----------------------------------------------------------------------------
(* Input processing *)

(* handle_scroll written without the upper clamp. *)
handle_scroll_no_upper_clamp(con, delta) ==
    LET new_scroll == Max(con.scroll_position + delta, 0)
    IN IF new_scroll # con.scroll_position
       THEN [con EXCEPT !.scroll_position = new_scroll,
                        !.display_start   = new_scroll]
       ELSE con

(* handle_scroll written to move the scroll offset only. *)
handle_scroll_position_only(con, delta) ==
    LET new0 == Max(con.scroll_position + delta, 0)
        max_scroll == Max(con.current_line - con.console_rows + 1, 0)
        new_scroll == Min(new0, max_scroll)
    IN IF new_scroll # con.scroll_position
       THEN [con EXCEPT !.scroll_position = new_scroll]
       ELSE con

(* handle_scroll; its render_console call writes pixels only. *)
handle_scroll(con, delta) ==
    LET new0 == con.scroll_position + delta
        new1 == IF new0 < 0 THEN 0 ELSE new0
        max0 == con.current_line - con.console_rows + 1
        max_scroll == IF max0 < 0 THEN 0 ELSE max0
        new_scroll == IF new1 > max_scroll THEN max_scroll ELSE new1
    IN IF new_scroll # con.scroll_position
       THEN [con EXCEPT !.scroll_position = new_scroll,
                        !.display_start   = new_scroll]
       ELSE con

(* ps2_read_data: the data byte when the status word has RXFULL, else 0. *)
ps2_read_data(stat, data) ==
    IF (stat \div PL050_STAT_RXFULL) % 2 = 1 THEN data % 256 ELSE 0

-----------------------------------------------------------------------------
(* Rendering.  The pixels a function stores are summed up as a drawing:    *)
(* pixels, whether it stores any, and beyond, whether it stores one in a   *)
(* pixel row outside the console.height rows of the framebuffer.           *)
NoDrawing == [pixels |-> FALSE, beyond |-> FALSE]

Drawings(a, b) == [pixels |-> a.pixels \/ b.pixels, beyond |-> a.beyond \/ b.beyond]

(* The loops "for y in from .. to - 1, for x in 0 .. width - 1: row[x] ="   *)
(* of clear_screen, draw_status_bar and render_console; from and to are    *)
(* 32-bit words.                                                           *)
fill_rows(con, from, to) ==
    LET any == WordLess(from, to) /\ con.width > 0
    IN [pixels |-> any, beyond |-> any /\ WordLess(WordOf(con.height), to)]

(* draw_char_at at pixel column x and the pixel row of word y. *)
draw_char_at(con, x, y) ==
    LET bottom == WordAdd(y, WordOf(FONT_HEIGHT))
    IN IF \/ con.framebuffer = WORD_ZERO
          \/ x + FONT_WIDTH > con.width
          \/ WordLess(WordOf(con.height), bottom)
       THEN NoDrawing
       ELSE [pixels |-> TRUE, beyond |-> WordLess(bottom, y)]

(* clear_screen *)
clear_screen(con) ==
    IF con.framebuffer = WORD_ZERO THEN NoDrawing
    ELSE fill_rows(con, WORD_ZERO, WordOf(con.height))

(* draw_status_bar: the background, and the status text, whose first       *)
(* character is drawn when the display is at least one character wide.     *)
draw_status_bar(con) ==
    LET status_y == u32_sub(con.height, STATUS_BAR_HEIGHT)
    IN Drawings(fill_rows(con, status_y, WordOf(con.height)),
                IF con.width \div FONT_WIDTH > 0
                THEN draw_char_at(con, 0, status_y) ELSE NoDrawing)

(* render_console: the clearing of the main area, the visible cells, of    *)
(* which the first is drawn if any is, and the status bar.                 *)
render_console(con) ==
    IF con.framebuffer = WORD_ZERO THEN NoDrawing
    ELSE Drawings(
           Drawings(fill_rows(con, WORD_ZERO, u32_sub(con.height, STATUS_BAR_HEIGHT)),
                    IF /\ con.console_rows > 0
                       /\ con.display_start < con.buffer_lines
                       /\ con.console_cols > 0
                    THEN draw_char_at(con, 0, WORD_ZERO) ELSE NoDrawing),
           draw_status_bar(con))

(* render_console, lines 634-656, and the test of draw_char_at: whether    *)
(* the cell at line and col of the buffer is drawn.                        *)
cell_drawn(con, line, col) ==
    /\ con.framebuffer # WORD_ZERO
    /\ line >= con.display_start
    /\ line - con.display_start < con.console_rows
    /\ line < con.buffer_lines
    /\ get_cell(con, line, col) # NoCell
    /\ col * FONT_WIDTH + FONT_WIDTH <= con.width
    /\ (line - con.display_start) * FONT_HEIGHT + FONT_HEIGHT <= con.height

(* The cursor test with bit 4 of the counter. *)
cursor_swapped_bit4(con) ==
    con.cursor_visible /\ (con.cursor_blink_counter \div 16) % 2 = 1

(* render_console, line 651: cursor_visible && (cursor_blink_counter & 0x20) *)
cursor_swapped(con) ==
    con.cursor_visible /\ (con.cursor_blink_counter \div 32) % 2 = 1

(* render_console, lines 650-654: the <<line, col>> of the cells drawn     *)
(* with foreground and background swapped.                                 *)
swapped_cells(con) ==
    IF cell_drawn(con, con.current_line, con.current_col) /\ cursor_swapped(con)
    THEN {<<con.current_line, con.current_col>>}
    ELSE {}

(* The console after a drawing.  A pixel stored outside the framebuffer    *)
(* lands on other memory: it may miss the console, or replace one of its   *)
(* words with the pixel's colour.                                          *)
after_drawing(con, d) ==
    IF d.beyond
    THEN {con, [con EXCEPT !.current_fg = COLOR_BLACK],
               [con EXCEPT !.current_bg = COLOR_WHITE]}
    ELSE {con}

(* The register reads of ps2_read_data, lines 472-475: the status word,    *)
(* and the data word when the status word has RXFULL.                      *)
ps2_reads(stat) ==
    IF (stat \div PL050_STAT_RXFULL) % 2 = 1 THEN 2 ELSE 1

(* The PS/2 register reads of handle_keyboard_input and of                 *)
(* handle_mouse_input: none past the platform test of lines 684 and 722.   *)
input_reads(cp, stat) ==
    IF cp.platform # PLATFORM_QEMU_VERSATILE THEN 0 ELSE ps2_reads(stat)

(* The End key of handle_keyboard_input. *)
key_end(con) ==
    [con EXCEPT !.scroll_position = con.current_line,
                !.display_start   = IF con.current_line >= con.console_rows
                                    THEN con.current_line - con.console_rows + 1
                                    ELSE 0]

(* handle_keyboard_input with the page keys scrolling by one line. *)
handle_keyboard_input_pages_by_line(cp, con, stat, data) ==
    IF cp.platform # PLATFORM_QEMU_VERSATILE THEN con
    ELSE LET scancode == ps2_read_data(stat, data) IN
         CASE scancode \in {72, 73} -> handle_scroll(con, -1)
           [] scancode \in {80, 81} -> handle_scroll(con, 1)
           [] scancode = 71 -> [con EXCEPT !.scroll_position = 0,
                                           !.display_start = 0]
           [] scancode = 79 -> key_end(con)
           [] OTHER -> con

(* handle_keyboard_input without its platform test. *)
handle_keyboard_input_any_platform(cp, con, stat, data) ==
    LET scancode == ps2_read_data(stat, data) IN
    CASE scancode = 72 -> handle_scroll(con, -1)
      [] scancode = 80 -> handle_scroll(con, 1)
      [] scancode = 71 -> [con EXCEPT !.scroll_position = 0, !.display_start = 0]
      [] scancode = 79 -> key_end(con)
      [] OTHER -> con

(* handle_keyboard_input, given the keyboard's status and data words. *)
handle_keyboard_input(cp, con, stat, data) ==
    IF cp.platform # PLATFORM_QEMU_VERSATILE THEN con
    ELSE LET scancode == ps2_read_data(stat, data) IN
         CASE scancode = 72 -> handle_scroll(con, -1)                        \* 0x48
           [] scancode = 80 -> handle_scroll(con, 1)                         \* 0x50
           [] scancode = 73 -> handle_scroll(con, -con.console_rows)  \* 0x49
           [] scancode = 81 -> handle_scroll(con, con.console_rows)   \* 0x51
           [] scancode = 71 -> [con EXCEPT !.scroll_position = 0,            \* 0x47
                                           !.display_start = 0]
           [] scancode = 79 -> key_end(con)                                  \* 0x4F
           [] OTHER -> con

(* The decoding of a packet with the vertical movement not inverted. *)
decode_mouse_packet_y_not_inverted(con, pkt) ==
    LET x0 == con.mouse_x + ToInt8(pkt[1])
        y0 == con.mouse_y + ToInt8(pkt[2])
        x1 == IF x0 < 0 THEN 0 ELSE x0
        y1 == IF y0 < 0 THEN 0 ELSE y0
    IN [con EXCEPT !.mouse_x = IF x1 >= con.width THEN con.width - 1 ELSE x1,
                   !.mouse_y = IF y1 >= con.height THEN con.height - 1 ELSE y1,
                   !.mouse_buttons = pkt[0]]

(* The decoding of a packet with the scroll on the left button. *)
decode_mouse_packet_left_button(con, pkt) ==
    LET buttons == pkt[0]
        delta_x == ToInt8(pkt[1])
        delta_y == ToInt8(pkt[2])
        x0 == con.mouse_x + delta_x
        y0 == con.mouse_y - delta_y
        x1 == IF x0 < 0 THEN 0 ELSE x0
        y1 == IF y0 < 0 THEN 0 ELSE y0
        x2 == IF x1 >= con.width  THEN con.width - 1 ELSE x1
        y2 == IF y1 >= con.height THEN con.height - 1 ELSE y1
        c1 == [con EXCEPT !.mouse_x = x2, !.mouse_y = y2]
        c2 == IF buttons % 2 = 1 /\ delta_y # 0
              THEN handle_scroll(c1, IF delta_y > 0 THEN 3 ELSE -3)
              ELSE c1
    IN [c2 EXCEPT !.mouse_buttons = buttons]

(* handle_mouse_input, lines 697-717: the decoding of a whole packet. *)
decode_mouse_packet(con, pkt) ==
    LET buttons == pkt[0]
        delta_x == ToInt8(pkt[1])
        delta_y == ToInt8(pkt[2])
        x0 == con.mouse_x + delta_x
        y0 == con.mouse_y - delta_y
        x1 == IF x0 < 0 THEN 0 ELSE x0
        y1 == IF y0 < 0 THEN 0 ELSE y0
        x2 == IF x1 >= con.width  THEN con.width - 1 ELSE x1
        y2 == IF y1 >= con.height THEN con.height - 1 ELSE y1
        c1 == [con EXCEPT !.mouse_x = x2, !.mouse_y = y2]
        c2 == IF (buttons \div 2) % 2 = 1 /\ delta_y # 0
              THEN handle_scroll(c1, IF delta_y > 0 THEN 3 ELSE -3)
              ELSE c1
    IN [c2 EXCEPT !.mouse_buttons = buttons]

(* handle_mouse_input, given the mouse's status and data words: the new    *)
(* console, mouse_packet and packet_index.                                 *)
handle_mouse_input(cp, con, pkt, idx, stat, data) ==
    LET same == [console |-> con, mouse_packet |-> pkt, packet_index |-> idx]
        byte == ps2_read_data(stat, data)
        pkt1 == [pkt EXCEPT ![idx] = byte]
    IN IF cp.platform # PLATFORM_QEMU_VERSATILE THEN same
       ELSE IF byte = 0 THEN same
       ELSE IF idx + 1 >= 3
       THEN [console |-> decode_mouse_packet(con, pkt1),
             mouse_packet |-> pkt1, packet_index |-> 0]
       ELSE [console |-> con, mouse_packet |-> pkt1, packet_index |-> idx + 1]

(* init_ps2_devices; the reset and enable bytes go out to the mouse. *)
init_ps2_devices(cp, con) ==
    IF cp.platform # PLATFORM_QEMU_VERSATILE THEN con
    ELSE [con EXCEPT !.mouse_available = TRUE, !.keyboard_available = TRUE]

-----------------------------------------------------------------------------
(* Mailbox, display negotiation and startup *)

(* static display_request_t request of detect_display_resolution: the      *)
(* fields the firmware answers.                                            *)
ZeroRequest ==
    [code |-> WORD_ZERO, physical_width |-> 0, physical_height |-> 0]

(* static display_request_t fb_request of setup_framebuffer: the fields    *)
(* the program sets and the firmware answers.                              *)
ZeroFbRequest ==
    [code |-> WORD_ZERO, set_width |-> 0, set_height |-> 0,
     virtual_width |-> 0, virtual_height |-> 0, depth |-> 32,
     fb_address |-> WORD_ZERO, fb_size |-> 0, pitch |-> 0]

(* The hardware outside the CPU.  full is the FULL bit of the mailbox      *)
(* status word, reply the words waiting in the read                        *)
(* register (EMPTY is set when there is none), written the words stored to *)
(* the write register, txbusy the TXBUSY bit of the mouse port and         *)
(* mouse_sent the bytes stored to its data register.  mailbox_touched is a *)
(* ghost: whether any mailbox register was read or written.  The other     *)
(* ghosts describe the last clear_screen of universal_console_init or      *)
(* render_console of console_update: pixels_stored, whether it stored a    *)
(* pixel; pixels_beyond, whether it stored one outside the framebuffer;    *)
(* swapped, the cells it drew with the colours swapped; cursor_drawn,      *)
(* whether it drew the cell under the cursor.                              *)
QuietHardware ==
    [full |-> FALSE, reply |-> <<>>, written |-> <<>>,
     request |-> ZeroRequest, fb_request |-> ZeroFbRequest,
     txbusy |-> FALSE, mouse_sent |-> <<>>, mailbox_touched |-> FALSE,
     pixels_stored |-> FALSE, pixels_beyond |-> FALSE,
     swapped |-> {}, cursor_drawn |-> FALSE]

(* universal_console_init at position pc, with its locals width and height *)
(* and the values its callees and itself return; mailbox_result is the     *)
(* local result of the callee that called mailbox_read last.               *)
BootAt(pc) ==
    [pc |-> pc, width |-> 0, height |-> 0, resolution_result |-> 0,
     setup_result |-> 0, result |-> 0, mailbox_result |-> WORD_ZERO]

(* universal_console_init returned. *)
BootReturned(pc, width, height) ==
    [BootAt(pc) EXCEPT !.width = width, !.height = height]

(* The address conversion written with the mask on every chip family. *)
gpu_to_arm_mask_everywhere(platform, fb_address) ==
    IF platform \in {PLATFORM_PI_BCM2835, PLATFORM_PI_BCM2836,
                     PLATFORM_PI_BCM2837, PLATFORM_PI_BCM2837B0,
                     PLATFORM_PI_BCM2711}
    THEN <<fb_address[1] % 16384, fb_address[2]>>
    ELSE fb_address

(* setup_framebuffer, lines 423-440: the GPU bus address as an ARM         *)
(* address.  fb_address &= 0x3FFFFFFF keeps the low 14 bits of the high    *)
(* half; 0xC0000000 is the word <<49152, 0>>.                              *)
gpu_to_arm(platform, fb_address) ==
    IF platform \in {PLATFORM_PI_BCM2835, PLATFORM_PI_BCM2836,
                     PLATFORM_PI_BCM2837, PLATFORM_PI_BCM2837B0}
    THEN <<fb_address[1] % 16384, fb_address[2]>>
    ELSE IF platform = PLATFORM_PI_BCM2711
    THEN (IF fb_address[1] >= 49152
          THEN <<fb_address[1] - 49152, fb_address[2]>>
          ELSE fb_address)
    ELSE fb_address

(* mailbox_available *)
mailbox_available(cp) ==
    cp.mailbox_base # WORD_ZERO /\ cp.platform # PLATFORM_QEMU_VERSATILE

MAILBOX_CHANNEL_GPU == 8

(* 0x80000000, the response code of a request the firmware has processed *)
RESPONSE_SUCCESS == <<32768, 0>>

(* detect_display_resolution, lines 339-349: its own fallback table. *)
resolution_fallback(platform) ==
    CASE platform = PLATFORM_PI_BCM2711 -> <<1920, 1080>>
      [] platform \in {PLATFORM_PI_BCM2837, PLATFORM_PI_BCM2837B0} -> <<1680, 1050>>
      [] platform = PLATFORM_PI_BCM2836 -> <<1280, 1024>>
      [] OTHER -> <<1024, 768>>

(* The fallback of universal_console_init written with one resolution for  *)
(* every platform.                                                         *)
init_fallback_one_size(platform) == <<1024, 768>>

(* universal_console_init, lines 852-865: the fallback table applied when  *)
(* detect_display_resolution did not return 0.                             *)
init_fallback(platform) ==
    CASE platform = PLATFORM_PI_BCM2711 -> <<1920, 1080>>
      [] platform \in {PLATFORM_PI_BCM2837, PLATFORM_PI_BCM2837B0} -> <<1680, 1050>>
      [] platform = PLATFORM_PI_BCM2836 -> <<1280, 1024>>
      [] platform = PLATFORM_QEMU_VERSATILE -> <<QEMU_WIDTH, QEMU_HEIGHT>>
      [] OTHER -> <<1024, 768>>

(* detect_display_resolution, lines 332-351, once mailbox_read returned:   *)
(* <<width, height, return value>>.                                        *)
resolution_answer(platform, request) ==
    IF /\ request.code = RESPONSE_SUCCESS
       /\ request.physical_width > 0
       /\ request.physical_height > 0
    THEN <<request.physical_width, request.physical_height, 0>>
    ELSE LET f == resolution_fallback(platform) IN <<f[1], f[2], -1>>

(* (height - STATUS_BAR_HEIGHT) / FONT_HEIGHT in uint32_t: a height below  *)
(* the bar's wraps to 2^32 + height - 16 before the division, and          *)
(* (2^32 + d) / 16 = 2^28 + d / 16 rounded down for -16 <= d < 0.          *)
rows_of_height(height) ==
    IF height >= STATUS_BAR_HEIGHT
    THEN (height - STATUS_BAR_HEIGHT) \div FONT_HEIGHT
    ELSE 2^28 + ((height - STATUS_BAR_HEIGHT) \div FONT_HEIGHT)

(* setup_framebuffer written to keep the pitch in bytes. *)
setup_framebuffer_answer_byte_pitch(con, platform, fb_request) ==
    LET cols == fb_request.set_width \div FONT_WIDTH
        rows == rows_of_height(fb_request.set_height)
    IN [con EXCEPT
          !.framebuffer  = gpu_to_arm(platform, fb_request.fb_address),
          !.width        = fb_request.set_width,
          !.height       = fb_request.set_height,
          !.pitch        = fb_request.pitch,
          !.console_cols = IF cols < MIN_CONSOLE_COLS THEN MIN_CONSOLE_COLS ELSE cols,
          !.console_rows = IF rows < MIN_CONSOLE_ROWS THEN MIN_CONSOLE_ROWS ELSE rows]

(* setup_framebuffer, lines 423-455, after a response with code            *)
(* 0x80000000.                                                             *)
setup_framebuffer_answer(con, platform, fb_request) ==
    LET cols == fb_request.set_width \div FONT_WIDTH
        rows == rows_of_height(fb_request.set_height)
    IN [con EXCEPT
          !.framebuffer  = gpu_to_arm(platform, fb_request.fb_address),
          !.width        = fb_request.set_width,
          !.height       = fb_request.set_height,
          !.pitch        = fb_request.pitch \div 4,
          !.console_cols = IF cols < MIN_CONSOLE_COLS THEN MIN_CONSOLE_COLS ELSE cols,
          !.console_rows = IF rows < MIN_CONSOLE_ROWS THEN MIN_CONSOLE_ROWS ELSE rows]

-----------------------------------------------------------------------------
(* Bounds of the scaled console.  The program's buffer has                 *)
(* MAX_BUFFER_LINES lines of at least MIN_CONSOLE_COLS cells; the scaled   *)
(* console keeps every relation between cursor, window and buffer with a   *)
(* buffer of BufferLines lines.  MaxChars caps the counter total_chars.    *)
BufferLines == 4
MaxChars    == 2
MaxTicks    == 2

(* Scaled displays, <<width, height>> in pixels: a narrow one of 2 x 2     *)
(* cells, and one of 9 x 3 cells, wide enough to hold a tab stop.          *)
NarrowDisplay == <<2 * FONT_WIDTH, 2 * FONT_HEIGHT + STATUS_BAR_HEIGHT>>
WideDisplay   == <<9 * FONT_WIDTH, 3 * FONT_HEIGHT + STATUS_BAR_HEIGHT>>

(* '\n', '\r', '\t', '\b', BEL and a printable character: 'a' on the       *)
(* narrow display, ' ' on the wide one.                                    *)
OutputChars(con) ==
    {10, 13, 9, 8, 7} \cup (IF con.console_cols > 8 THEN {32} ELSE {97})

(* Scroll amounts of a direct scroll command. *)
ScrollDeltas == {-1000, -3, -1, 1, 3, 1000}

(* Keyboard registers <<status, data>>: RXFULL clear; RXFULL set with each *)
(* of the six mapped scancodes, an unmapped one (0x1E) and 0.              *)
KeyboardWords ==
    {<<67, 72>>} \cup {<<83, sc>> : sc \in {72, 80, 73, 81, 71, 79, 30, 0}}

(* Mouse registers <<status, data>>: RXFULL clear; RXFULL set with 0x82    *)
(* (right button, or a delta of -126).                                     *)
MouseWords == {<<67, 130>>, <<83, 130>>}

(* Probe fixtures: an emulator and a board on which no probe is present. *)
QemuFixture ==
    [a \in ProbeAddrs |-> IF a = QemuKbdStatusAddr THEN <<0, 67>> ELSE WORD_ZERO]
Bcm2835Fixture ==
    [a \in ProbeAddrs |-> WORD_ZERO]

(* The console after setup_framebuffer, init_ps2_devices and               *)
(* init_console_buffer, for a display of width x height pixels and a       *)
(* buffer of lines lines.  The cell counts are those of the emulator       *)
(* branch of setup_framebuffer, width / 8 by (height - 16) / 16, so the     *)
(* board fixture stands for a console of the same scaled geometry on       *)
(* which the input handlers return at once; the mailbox branch, which      *)
(* also raises the counts to 40 x 15, is setup_framebuffer_answer.         *)
FreshConsole(cp, width, height, lines) ==
    init_console_buffer(
        init_ps2_devices(cp, setup_framebuffer_qemu(ZeroConsole, width, height)),
        lines)

(* The ghost counter is kept only where shift-scrolls are counted. *)
NoGhost(con) == [con EXCEPT !.shift_scrolls = 0]

(* op: the function that ran last, its argument, and for the input        *)
(* functions and console_putchar the <<scroll_position, display_start>>    *)
(* they started from;                                                      *)
(* for handle_mouse_input also rxfull, the RXFULL bit of the status word   *)
(* it read.                                                                *)
Op(name, arg, pre) == [name |-> name, arg |-> arg, pre |-> pre]
NoPre == <<0, 0>>
ScrollPre(con) == <<con.scroll_position, con.display_start>>

ConsoleInit(fixtures, displays, lines) ==
    /\ mem \in fixtures
    /\ current_platform = detect_platform(ZeroPlatform, mem)
    /\ \E d \in displays :
          /\ console = FreshConsole(current_platform, d[1], d[2], lines)
          /\ boot = BootReturned("banner", d[1], d[2])
    /\ hw = QuietHardware
    /\ mouse_packet = [i \in 0..2 |-> 0]
    /\ packet_index = 0
    /\ op = Op("init_console_buffer", 0, NoPre)

(* console_putchar(c) *)
PutChar(c) ==
    /\ (c >= 32 /\ c <= 126) => console.total_chars < MaxChars
    /\ console' = NoGhost(console_putchar(console, c))
    /\ op' = Op("console_putchar", c, ScrollPre(console))
    /\ UNCHANGED <<mem, current_platform, mouse_packet, packet_index, boot, hw>>

(* console_clear() *)
Clear ==
    /\ console' = NoGhost(console_clear(console))
    /\ op' = Op("console_clear", 0, NoPre)
    /\ UNCHANGED <<mem, current_platform, mouse_packet, packet_index, boot, hw>>

(* handle_scroll(delta) as a scroll command of its own *)
Scroll(delta) ==
    /\ console' = handle_scroll(console, delta)
    /\ op' = Op("handle_scroll", delta, ScrollPre(console))
    /\ UNCHANGED <<mem, current_platform, mouse_packet, packet_index, boot, hw>>

(* handle_keyboard_input() with the keyboard registers holding w *)
Keyboard(w) ==
    /\ console' = handle_keyboard_input(current_platform, console, w[1], w[2])
    /\ op' = Op("handle_keyboard_input", ps2_read_data(w[1], w[2]), ScrollPre(console))
    /\ UNCHANGED <<mem, current_platform, mouse_packet, packet_index, boot, hw>>

(* handle_mouse_input() with the mouse registers holding w *)
Mouse(w) ==
    LET r == handle_mouse_input(current_platform, console, mouse_packet,
                                packet_index, w[1], w[2])
    IN /\ console' = r.console
       /\ mouse_packet' = r.mouse_packet
       /\ packet_index' = r.packet_index
       /\ op' = [name |-> "handle_mouse_input", arg |-> ps2_read_data(w[1], w[2]),
                 pre |-> ScrollPre(console),
                 rxfull |-> (w[1] \div PL050_STAT_RXFULL) % 2 = 1]
       /\ UNCHANGED <<mem, current_platform, boot, hw>>

(* console_update() with the keyboard registers holding k and the mouse    *)
(* registers holding m: both input handlers, the blink counter, and        *)
(* render_console.  op.arg is the number of PS/2 register reads of the     *)
(* tick; ticks caps the blink counter.                                     *)
ConsoleUpdateUpTo(k, m, ticks) ==
    LET c1 == handle_keyboard_input(current_platform, console, k[1], k[2])
        r  == handle_mouse_input(current_platform, c1, mouse_packet,
                                 packet_index, m[1], m[2])
        c2 == [r.console EXCEPT !.cursor_blink_counter = @ + 1]
    IN /\ boot.pc = "banner"
       /\ console.cursor_blink_counter < ticks
       /\ console' \in after_drawing(c2, render_console(c2))
       /\ hw' = [hw EXCEPT !.pixels_stored = render_console(c2).pixels,
                           !.pixels_beyond = render_console(c2).beyond,
                           !.swapped = swapped_cells(c2),
                           !.cursor_drawn = cell_drawn(c2, c2.current_line,
                                                       c2.current_col)]
       /\ mouse_packet' = r.mouse_packet
       /\ packet_index' = r.packet_index
       /\ op' = Op("console_update",
                   input_reads(current_platform, k[1])
                     + input_reads(current_platform, m[1]),
                   ScrollPre(console))
       /\ UNCHANGED <<mem, current_platform, boot>>

ConsoleUpdate(k, m) == ConsoleUpdateUpTo(k, m, MaxTicks)

-----------------------------------------------------------------------------
(* Spec: every console operation, on the emulator and on a board. *)
Init == ConsoleInit({QemuFixture, Bcm2835Fixture}, {NarrowDisplay, WideDisplay},
                    BufferLines)

Next ==
    \/ \E c \in OutputChars(console) : PutChar(c)
    \/ Clear
    \/ \E d \in ScrollDeltas : Scroll(d)
    \/ \E w \in KeyboardWords : Keyboard(w)
    \/ \E w \in MouseWords : Mouse(w)

Spec == Init /\ [][Next]_vars

-----------------------------------------------------------------------------
(* SpecOutput: console_putchar alone, on a freshly initialised buffer.     *)
(* The ghost counter of shift-scrolls is kept, and capped.                 *)
MaxShiftScrolls == 2

OutputPutChar(c) ==
    /\ (c >= 32 /\ c <= 126) => console.total_chars < MaxChars
    /\ console_putchar(console, c).shift_scrolls <= MaxShiftScrolls
    /\ console' = console_putchar(console, c)
    /\ op' = Op("console_putchar", c, NoPre)
    /\ UNCHANGED <<mem, current_platform, mouse_packet, packet_index, boot, hw>>

NextOutput == \E c \in OutputChars(console) : OutputPutChar(c)

SpecOutput == Init /\ [][NextOutput]_vars

-----------------------------------------------------------------------------
IsQemu == current_platform.platform = PLATFORM_QEMU_VERSATILE

(* C1: with console_putchar calls only since initialisation, the window    *)
(* follows the cursor: display_start + console_rows - 1 = current_line     *)
(* once current_line >= console_rows - 1, and display_start = 0 before,    *)
(* also across shift-scrolls.                                              *)
C1_AutoFollow ==
    IF console.current_line >= console.console_rows - 1
    THEN console.display_start + console.console_rows - 1 = console.current_line
    ELSE console.display_start = 0

(* The window has followed the cursor to the last line and the buffer has  *)
(* shift-scrolled under it.                                                *)
C1_Witness ==
    /\ op.name = "console_putchar"
    /\ console.shift_scrolls >= 2
    /\ console.current_line = console.buffer_lines - 1
    /\ console.display_start = console.buffer_lines - console.console_rows
    /\ console.display_start > 0

(* C2: after any sequence of console operations the cursor is inside the   *)
(* buffer: 0 <= current_col < console_cols and current_line < buffer_lines.*)
C2_CursorInBuffer ==
    /\ 0 <= console.current_col
    /\ console.current_col < console.console_cols
    /\ 0 <= console.current_line
    /\ console.current_line < console.buffer_lines

(* A tab has left the cursor on the last column of the last line, after a  *)
(* manual scroll moved the window back to the top of the buffer.          *)
C2_Witness ==
    /\ op.name = "console_putchar" /\ op.arg = 9
    /\ console.current_col = console.console_cols - 1
    /\ console.current_line = console.buffer_lines - 1
    /\ console.display_start = 0

(* C3: display_start never passes the line of the write cursor. *)
C3_WindowNotPastCursor ==
    console.display_start <= console.current_line

(* The End key has put the window on a line below the top of the buffer. *)
C3_Witness ==
    /\ op.name = "handle_keyboard_input" /\ op.arg = 79
    /\ IsQemu
    /\ console.display_start > 0
    /\ console.scroll_position = console.current_line

(* Whether the function that ran last called handle_scroll: directly, for  *)
(* an arrow or page key, or for a decoded packet with the right button and *)
(* a vertical delta.                                                       *)
ScrollCalled ==
    \/ op.name = "handle_scroll"
    \/ /\ IsQemu
       /\ op.name = "handle_keyboard_input"
       /\ op.arg \in {72, 80, 73, 81}
    \/ /\ IsQemu
       /\ op.name = "handle_mouse_input"
       /\ op.arg # 0
       /\ packet_index = 0
       /\ (mouse_packet[0] \div 2) % 2 = 1
       /\ mouse_packet[2] # 0

(* C5: after every call of handle_scroll, display_start = scroll_position, *)
(* also when the call started with the two apart (after the End key) and   *)
(* when it left scroll_position as it was.                                 *)
C5_ScrollSyncsWindow ==
    ScrollCalled => console.display_start = console.scroll_position

(* handle_scroll ran from a state the End key had left with                *)
(* scroll_position and display_start apart.                                *)
C5_Witness ==
    /\ op.name = "handle_scroll"
    /\ op.pre[1] # op.pre[2]
    /\ console.display_start = console.scroll_position
    /\ console.scroll_position > 0

-----------------------------------------------------------------------------
(* SpecNewlines: the pending colours are chosen, then newlines are written *)
(* to a freshly initialised buffer, buffer_lines + 5 of them.  The ghost   *)
(* counter of shift-scrolls is kept; op.pre[1] counts the newlines.        *)
ColorPairs ==
    {<<COLOR_YELLOW, COLOR_BLACK>>, <<COLOR_WHITE, COLOR_BLUE>>,
     <<COLOR_YELLOW, COLOR_BLUE>>}

NewlinesWritten == IF op.name = "console_putchar" THEN op.pre[1] ELSE 0

(* console_set_color(fg, bg), before the first newline *)
SetColorFirst(fg, bg) ==
    /\ op.name = "init_console_buffer"
    /\ console' = console_set_color(console, fg, bg)
    /\ op' = Op("console_set_color", 0, NoPre)
    /\ UNCHANGED <<mem, current_platform, mouse_packet, packet_index, boot, hw>>

(* console_putchar('\n') *)
Newline ==
    /\ NewlinesWritten < console.buffer_lines + 5
    /\ console' = console_putchar(console, 10)
    /\ op' = Op("console_putchar", 10, <<NewlinesWritten + 1, 0>>)
    /\ UNCHANGED <<mem, current_platform, mouse_packet, packet_index, boot, hw>>

NextNewlines ==
    \/ \E p \in ColorPairs : SetColorFirst(p[1], p[2])
    \/ Newline

SpecNewlines == Init /\ [][NextNewlines]_vars

NewlinesDone ==
    /\ op.name = "console_putchar"
    /\ NewlinesWritten = console.buffer_lines + 5

LastLineBlank ==
    \A col \in 0 .. console.console_cols - 1 :
        LET cell == cell_at(console.buffer,
                            (console.buffer_lines - 1) * console.console_cols + col)
        IN cell.character = 32 /\ cell.background = console.current_bg

(* C6, as claimed: buffer_lines + 5 newlines on a fresh buffer make        *)
(* exactly 5 shift-scrolls, leave current_line = buffer_lines - 1 and the  *)
(* last line blank in the current background colour.                       *)
C6_FiveShiftScrolls ==
    NewlinesDone =>
        /\ console.shift_scrolls = 5
        /\ console.current_line = console.buffer_lines - 1
        /\ LastLineBlank

(* C6, amended: buffer_lines + 5 newlines on a fresh buffer make exactly 6 *)
(* shift-scrolls (the cursor starts on line 0, so the newline numbered     *)
(* buffer_lines is the first to exhaust the buffer), leave current_line =  *)
(* buffer_lines - 1 and the last line blank in the current background.     *)
C6_SixShiftScrolls ==
    NewlinesDone =>
        /\ console.shift_scrolls = 6
        /\ console.current_line = console.buffer_lines - 1
        /\ LastLineBlank

(* All buffer_lines + 5 newlines are written, under a blue background. *)
C6_Witness ==
    /\ NewlinesDone
    /\ console.current_bg = COLOR_BLUE
    /\ console.current_line = console.buffer_lines - 1
    /\ console.shift_scrolls > 0

-----------------------------------------------------------------------------
(* SpecDeep: the emulator's console at its real size (640 x 480 pixels,    *)
(* 80 x 29 cells, MAX_BUFFER_LINES lines), filled with newlines and        *)
(* scrolled by Home, End and direct scroll commands: by 1000 lines        *)
(* anywhere, and by the amounts of the keys and the mouse while the cursor *)
(* is within the first ShallowLines lines.                                 *)
DeepScrollDeltas == {-1000, 1000}
ShallowScrollDeltas == {-29, -3, -1, 1, 3, 29}
ShallowLines == 40
DeepKeyboardWords == {<<83, 71>>, <<83, 79>>}

InitDeep == ConsoleInit({QemuFixture}, {<<QEMU_WIDTH, QEMU_HEIGHT>>}, MAX_BUFFER_LINES)

NextDeep ==
    \/ PutChar(10)
    \/ \E d \in DeepScrollDeltas : Scroll(d)
    \/ \E d \in ShallowScrollDeltas :
          console.current_line < ShallowLines /\ Scroll(d)
    \/ \E w \in DeepKeyboardWords : Keyboard(w)

SpecDeep == InitDeep /\ [][NextDeep]_vars

(* max(0, current_line - console_rows + 1) *)
MaxScroll == Max(0, console.current_line - console.console_rows + 1)

ScrollClamped ==
    op.name = "handle_scroll" =>
        console.scroll_position = Min(Max(op.pre[1] + op.arg, 0), MaxScroll)

(* C4, as claimed: handle_scroll(delta) leaves scroll_position =           *)
(* min(max(old + delta, 0), max(0, current_line - console_rows + 1)), and  *)
(* scroll(-1000) yields 0 and scroll(+1000) yields the maximum from any    *)
(* state.                                                                  *)
C4_Thousand ==
    /\ ScrollClamped
    /\ (op.name = "handle_scroll" /\ op.arg = -1000) => console.scroll_position = 0
    /\ (op.name = "handle_scroll" /\ op.arg = 1000) => console.scroll_position = MaxScroll

(* C4, amended: handle_scroll(delta) leaves scroll_position =              *)
(* min(max(old + delta, 0), max(0, current_line - console_rows + 1));      *)
(* scroll(-1000) yields 0 from a scroll_position of at most 1000, and      *)
(* scroll(+1000) yields the maximum when that is at most 1000 lines away.  *)
C4_ScrollClamped ==
    /\ ScrollClamped
    /\ (op.name = "handle_scroll" /\ op.arg = -1000 /\ op.pre[1] <= 1000)
          => console.scroll_position = 0
    /\ (op.name = "handle_scroll" /\ op.arg = 1000 /\ MaxScroll - op.pre[1] <= 1000)
          => console.scroll_position = MaxScroll

(* handle_scroll(-1000) ran more than 1000 lines down the scrollback and   *)
(* stopped short of the top.                                               *)
C4_Witness ==
    /\ op.name = "handle_scroll" /\ op.arg = -1000
    /\ op.pre[1] > 1000
    /\ console.scroll_position = op.pre[1] - 1000
    /\ console.display_start = console.scroll_position

-----------------------------------------------------------------------------
(* SpecDetect: detect_platform, run once at startup, over every assignment *)
(* of ProbeValues to the probed addresses.                                 *)
ProbeMaps == [ProbeAddrs -> ProbeValues]

InitDetect ==
    /\ mem \in ProbeMaps
    /\ current_platform = ZeroPlatform
    /\ console = ZeroConsole
    /\ mouse_packet = [i \in 0..2 |-> 0]
    /\ packet_index = 0
    /\ op = Op("reset", 0, NoPre)
    /\ boot = BootAt("detect")
    /\ hw = QuietHardware

(* current_platform.platform = detect_platform() *)
DetectPlatform ==
    /\ op.name = "reset"
    /\ current_platform' = detect_platform(current_platform, mem)
    /\ op' = Op("detect_platform", 0, NoPre)
    /\ UNCHANGED <<mem, console, mouse_packet, packet_index, boot, hw>>

NextDetect == DetectPlatform

SpecDetect == InitDetect /\ [][NextDetect]_vars

Detected == op.name = "detect_platform"

(* A probed word reads as present: neither all-zero nor all-one. *)
Present(a) == mem[a] # WORD_ZERO /\ mem[a] # WORD_ONES

(* The emulator's probe matches: present, with a status byte other than    *)
(* 0xFF.                                                                   *)
EmulatorMatches == Present(QemuKbdStatusAddr) /\ LowByte(mem[QemuKbdStatusAddr]) # 255

IsProfile(platform, base, has_usb, has_ps2) ==
    /\ current_platform.platform = platform
    /\ current_platform.peripheral_base = base
    /\ current_platform.has_usb = has_usb
    /\ current_platform.has_ps2 = has_ps2

(* C7: detect_platform always returns a known family, chosen by the first  *)
(* matching probe in the order emulator, BCM2711 mailbox status,           *)
(* BCM2836/2837 mailbox status, and BCM2835 at 0x20000000 when no probe    *)
(* matches.                                                                *)
C7_DetectOrder ==
    Detected =>
        /\ current_platform.platform # PLATFORM_UNKNOWN
        /\ current_platform.platform \in
              {PLATFORM_PI_BCM2835, PLATFORM_PI_BCM2836, PLATFORM_PI_BCM2837,
               PLATFORM_PI_BCM2837B0, PLATFORM_PI_BCM2711, PLATFORM_QEMU_VERSATILE}
        /\ EmulatorMatches =>
              current_platform.platform = PLATFORM_QEMU_VERSATILE
        /\ (~EmulatorMatches /\ Present(Bcm2711MailboxAddr)) =>
              current_platform.platform = PLATFORM_PI_BCM2711
        /\ (~EmulatorMatches /\ ~Present(Bcm2711MailboxAddr)
              /\ Present(Bcm2836MailboxAddr)) =>
              current_platform.platform \in {PLATFORM_PI_BCM2836, PLATFORM_PI_BCM2837}
        /\ (~EmulatorMatches /\ ~Present(Bcm2711MailboxAddr)
              /\ ~Present(Bcm2836MailboxAddr)) =>
              /\ current_platform.platform = PLATFORM_PI_BCM2835
              /\ current_platform.peripheral_base = BCM2835_PERIPHERAL_BASE

(* No probed address reads as present, and BCM2835 is returned. *)
C7_Witness ==
    /\ Detected
    /\ \A a \in ProbeAddrs : ~Present(a)
    /\ mem[Bcm2711MailboxAddr] = WORD_ONES
    /\ current_platform.platform = PLATFORM_PI_BCM2835

(* C8, as claimed: the emulator profile is claimed whenever the low byte   *)
(* of the word at 0x10007004 is not 0xFF, for every 32-bit word there.     *)
C8_StatusByteNotOnes ==
    (Detected /\ LowByte(mem[QemuKbdStatusAddr]) # 255) =>
        current_platform.platform = PLATFORM_QEMU_VERSATILE

(* C8, amended: the emulator profile is claimed, whatever the other probed *)
(* addresses hold, whenever the word at 0x10007004 is not all-zero and its *)
(* low byte is not 0xFF; an all-zero word reads as absent and never        *)
(* selects the emulator.                                                   *)
C8_PresentStatusByteNotOnes ==
    /\ (Detected /\ mem[QemuKbdStatusAddr] # WORD_ZERO
           /\ LowByte(mem[QemuKbdStatusAddr]) # 255) =>
          /\ IsProfile(PLATFORM_QEMU_VERSATILE, QEMU_PERIPHERAL_BASE, FALSE, TRUE)
          /\ current_platform.mailbox_base = WORD_ZERO
    /\ (Detected /\ mem[QemuKbdStatusAddr] = WORD_ZERO) =>
          current_platform.platform # PLATFORM_QEMU_VERSATILE

(* The emulator is claimed on a status word with low byte 0x00 although    *)
(* both mailbox probes read as present.                                    *)
C8_Witness ==
    /\ Detected
    /\ mem[QemuKbdStatusAddr] = <<0, 256>>
    /\ Present(Bcm2711MailboxAddr) /\ Present(Bcm2836MailboxAddr)
    /\ current_platform.platform = PLATFORM_QEMU_VERSATILE

(* The BCM2836/2837 branch is the one taken. *)
MiddleFamilyMatches ==
    /\ ~EmulatorMatches
    /\ ~Present(Bcm2711MailboxAddr)
    /\ Present(Bcm2836MailboxAddr)

(* C9, as claimed: when the BCM2836/2837 mailbox probe matches and the     *)
(* timer probe fails, BCM2837 is returned, as when the timer probe         *)
(* succeeds.                                                               *)
C9_FailedTimerProbeGives2837 ==
    (Detected /\ MiddleFamilyMatches /\ ~Present(Bcm2836ArmTimerAddr)) =>
        current_platform.platform = PLATFORM_PI_BCM2837

(* C9, amended: when the BCM2836/2837 mailbox probe matches, BCM2837 is    *)
(* returned when the timer probe succeeds and BCM2836 when it fails, both  *)
(* with the peripheral base 0x3F000000.                                    *)
C9_TimerProbePicksSubRevision ==
    (Detected /\ MiddleFamilyMatches) =>
        IF Present(Bcm2836ArmTimerAddr)
        THEN IsProfile(PLATFORM_PI_BCM2837, BCM2836_PERIPHERAL_BASE, TRUE, FALSE)
        ELSE IsProfile(PLATFORM_PI_BCM2836, BCM2836_PERIPHERAL_BASE, TRUE, FALSE)

(* The timer probe has failed on a board of the middle family. *)
C9_Witness ==
    /\ Detected
    /\ MiddleFamilyMatches
    /\ ~Present(Bcm2836ArmTimerAddr)
    /\ current_platform.platform = PLATFORM_PI_BCM2836

(* What each discriminant's profile holds. *)
ExpectedProfile(cp) ==
    CASE cp.platform = PLATFORM_QEMU_VERSATILE ->
            cp.peripheral_base = QEMU_PERIPHERAL_BASE /\ ~cp.has_usb /\ cp.has_ps2
      [] cp.platform = PLATFORM_PI_BCM2711 ->
            cp.peripheral_base = BCM2711_PERIPHERAL_BASE /\ cp.has_usb /\ ~cp.has_ps2
      [] cp.platform \in {PLATFORM_PI_BCM2836, PLATFORM_PI_BCM2837, PLATFORM_PI_BCM2837B0} ->
            cp.peripheral_base = BCM2836_PERIPHERAL_BASE /\ cp.has_usb /\ ~cp.has_ps2
      [] cp.platform = PLATFORM_PI_BCM2835 ->
            cp.peripheral_base = BCM2835_PERIPHERAL_BASE /\ cp.has_usb /\ ~cp.has_ps2
      [] OTHER -> FALSE

Detectable(platform) ==
    \E m \in ProbeMaps :
        LET cp == detect_platform(ZeroPlatform, m)
        IN cp.platform = platform /\ ExpectedProfile(cp)

(* C10: each of BCM2835, BCM2836, BCM2837, BCM2837B0, BCM2711 and the      *)
(* emulator is returned by detect_platform for some assignment of the      *)
(* probed words, with its family's peripheral base and capability flags.   *)
C10_EveryProfileDetectable ==
    Detected =>
        \A platform \in {PLATFORM_PI_BCM2835, PLATFORM_PI_BCM2836, PLATFORM_PI_BCM2837,
                         PLATFORM_PI_BCM2837B0, PLATFORM_PI_BCM2711,
                         PLATFORM_QEMU_VERSATILE} :
            Detectable(platform)

(* The words a chip family's profile holds: peripheral base, and the       *)
(* mailbox, GPIO, UART and USB bases at +0x00B880, +0x200000, +0x201000    *)
(* and +0x980000.                                                          *)
FamilyBases(platform) ==
    CASE platform = PLATFORM_PI_BCM2835 ->
            <<<<8192, 0>>, <<8192, 47232>>, <<8224, 0>>, <<8224, 4096>>, <<8344, 0>>>>
      [] platform \in {PLATFORM_PI_BCM2836, PLATFORM_PI_BCM2837, PLATFORM_PI_BCM2837B0} ->
            <<<<16128, 0>>, <<16128, 47232>>, <<16160, 0>>, <<16160, 4096>>, <<16280, 0>>>>
      [] platform = PLATFORM_PI_BCM2711 ->
            <<<<65024, 0>>, <<65024, 47232>>, <<65056, 0>>, <<65056, 4096>>, <<65176, 0>>>>

ChipFamilies ==
    {PLATFORM_PI_BCM2835, PLATFORM_PI_BCM2836, PLATFORM_PI_BCM2837,
     PLATFORM_PI_BCM2837B0, PLATFORM_PI_BCM2711}

(* C11: on every return path of detect_platform the profile is fully       *)
(* populated: a name, the family's peripheral base, for a chip family the  *)
(* mailbox, GPIO, UART and USB bases at their offsets from it, has_usb     *)
(* exactly for the chip families and has_ps2 exactly for the emulator.     *)
C11_ProfilePopulated ==
    Detected =>
        /\ current_platform.name # ""
        /\ current_platform.platform \in ChipFamilies =>
              /\ <<current_platform.peripheral_base, current_platform.mailbox_base,
                   current_platform.gpio_base, current_platform.uart_base,
                   current_platform.usb_base>> = FamilyBases(current_platform.platform)
              /\ current_platform.has_usb /\ ~current_platform.has_ps2
        /\ current_platform.platform \notin ChipFamilies =>
              /\ current_platform.platform = PLATFORM_QEMU_VERSATILE
              /\ current_platform.peripheral_base = <<4096, 0>>
              /\ current_platform.mailbox_base = WORD_ZERO
              /\ current_platform.gpio_base = <<4096, 28672>>
              /\ current_platform.uart_base = <<4127, 4096>>
              /\ current_platform.usb_base = WORD_ZERO
              /\ current_platform.has_ps2 /\ ~current_platform.has_usb
        /\ current_platform.has_ps2 <=> current_platform.platform = PLATFORM_QEMU_VERSATILE
        /\ current_platform.has_usb <=> current_platform.platform \in ChipFamilies

(* The BCM2836 branch, whose discriminant and name are set apart from its  *)
(* bases, has returned a whole profile.                                    *)
C11_Witness ==
    /\ Detected
    /\ current_platform.platform = PLATFORM_PI_BCM2836
    /\ current_platform.name = "Raspberry Pi 2 (BCM2836)"
    /\ current_platform.usb_base = <<16280, 0>>
    /\ current_platform.has_usb

-----------------------------------------------------------------------------
(* SpecTranslate: the address conversion of setup_framebuffer applied to   *)
(* the address the firmware returned, under the profile of each chip       *)
(* family.                                                                 *)

(* GPU bus addresses: 0x40012340, 0xC0012340, 0x00012340, 0x7E012340,      *)
(* 0x00000000, 0x3FFFFFFF, 0x40000000, 0x80000000, 0xBFFFFFFF, 0xC0000000, *)
(* 0xFE000000 and 0xFFFFFFFF.                                              *)
GpuAddresses ==
    {<<16385, 9024>>, <<49153, 9024>>, <<1, 9024>>, <<32257, 9024>>,
     WORD_ZERO, <<16383, 65535>>, <<16384, 0>>, <<32768, 0>>,
     <<49151, 65535>>, <<49152, 0>>, <<65024, 0>>, WORD_ONES}

(* The profile of a chip family, as its branch of detect_platform (or, for *)
(* BCM2837B0, the branch of its family) populates it.                      *)
FamilyProfile(platform) ==
    chip_profile(ZeroPlatform, platform,
                 CASE platform = PLATFORM_PI_BCM2835 -> BCM2835_PERIPHERAL_BASE
                   [] platform = PLATFORM_PI_BCM2711 -> BCM2711_PERIPHERAL_BASE
                   [] OTHER -> BCM2836_PERIPHERAL_BASE,
                 "chip")

InitTranslate ==
    /\ mem = Bcm2835Fixture
    /\ current_platform \in {FamilyProfile(k) : k \in ChipFamilies}
    /\ console = ZeroConsole
    /\ mouse_packet = [i \in 0..2 |-> 0]
    /\ packet_index = 0
    /\ op = Op("reset", 0, NoPre)
    /\ boot = BootAt("fb_read_wait")
    /\ \E a \in GpuAddresses :
          hw = [QuietHardware EXCEPT !.fb_request.code = <<32768, 0>>,
                                     !.fb_request.fb_address = a]

(* setup_framebuffer, line 442: console.framebuffer takes the converted     *)
(* address.                                                                *)
TranslateAddress ==
    /\ op.name = "reset"
    /\ console' = [console EXCEPT !.framebuffer =
                      gpu_to_arm(current_platform.platform, hw.fb_request.fb_address)]
    /\ op' = Op("gpu_to_arm", 0, NoPre)
    /\ UNCHANGED <<mem, current_platform, mouse_packet, packet_index, boot, hw>>

NextTranslate == TranslateAddress

SpecTranslate == InitTranslate /\ [][NextTranslate]_vars

Translated == op.name = "gpu_to_arm"

(* C12: under BCM2835, BCM2836, BCM2837 and BCM2837B0 the converted        *)
(* address is the returned one with its two top bits cleared (0x40012340   *)
(* gives 0x00012340); under BCM2711 it is the returned one less 0xC0000000 *)
(* when that is at or above 0xC0000000 (0xC0012340 gives 0x00012340), and  *)
(* the returned one otherwise.                                             *)
C12_AddressTranslation ==
    Translated =>
        LET addr == hw.fb_request.fb_address
            res  == console.framebuffer
        IN IF current_platform.platform = PLATFORM_PI_BCM2711
           THEN /\ addr[1] >= 49152 => res = <<addr[1] - 49152, addr[2]>>
                /\ addr[1] < 49152 => res = addr
                /\ addr = <<49153, 9024>> => res = <<1, 9024>>
           ELSE /\ res[2] = addr[2]
                /\ res[1] < 16384
                /\ (addr[1] - res[1]) % 16384 = 0
                /\ addr = <<16385, 9024>> => res = <<1, 9024>>

(* 0x40012340 has become 0x00012340 under BCM2837B0. *)
C12_Witness ==
    /\ Translated
    /\ current_platform.platform = PLATFORM_PI_BCM2837B0
    /\ hw.fb_request.fb_address = <<16385, 9024>>
    /\ console.framebuffer = <<1, 9024>>

-----------------------------------------------------------------------------
(* SpecBoot: universal_console_init from reset to the point where it       *)
(* starts to print its banner (line 881; the banner is console output,     *)
(* the PutChar steps of Spec), one step per stretch of code between two    *)
(* busy-wait loops and one step per poll of a loop, interleaved with the   *)
(* firmware and the mouse port changing the registers.                     *)

Bcm2711Fixture ==
    [a \in ProbeAddrs |-> IF a = Bcm2711MailboxAddr THEN <<16384, 0>> ELSE WORD_ONES]
Bcm2836Fixture ==
    [a \in ProbeAddrs |-> IF a = Bcm2836MailboxAddr THEN <<16384, 0>> ELSE WORD_ONES]
Bcm2837Fixture ==
    [a \in ProbeAddrs |->
        IF a \in {Bcm2836MailboxAddr, Bcm2836ArmTimerAddr} THEN <<16384, 0>> ELSE WORD_ONES]

BootFixtures ==
    {QemuFixture, Bcm2835Fixture, Bcm2836Fixture, Bcm2837Fixture, Bcm2711Fixture}

(* Response codes: not answered, processed, processed with an error. *)
ResponseCodes == {WORD_ZERO, RESPONSE_SUCCESS, <<32768, 1>>}

(* Physical sizes the firmware reports, and sizes it grants instead of the *)
(* requested one.                                                          *)
PhysicalSizes == {<<0, 0>>, <<800, 0>>, <<800, 600>>, <<320, 8>>}
GrantedSizes  == {<<0, 0>>, <<320, 8>>, <<200, 100>>, <<3840, 2160>>}
GrantedAddresses == {WORD_ZERO, <<16385, 9024>>, <<49153, 9024>>}

(* Channels of the words the firmware puts in the read register. *)
ReplyChannels == {1, MAILBOX_CHANNEL_GPU}

(* How many words the read register holds at most. *)
MailboxDepth == 1

InitBoot ==
    /\ mem \in BootFixtures
    /\ current_platform = ZeroPlatform
    /\ console = ZeroConsole
    /\ mouse_packet = [i \in 0..2 |-> 0]
    /\ packet_index = 0
    /\ op = Op("reset", 0, NoPre)
    /\ boot = BootAt("detect")
    /\ \E f \in BOOLEAN, t \in BOOLEAN :
          hw = [QuietHardware EXCEPT !.full = f, !.txbusy = t]

BootKeeps == UNCHANGED <<mem, mouse_packet, packet_index>>

(* line 847: current_platform.platform = detect_platform() *)
BootDetect ==
    /\ boot.pc = "detect"
    /\ current_platform' = detect_platform(current_platform, mem)
    /\ boot' = [boot EXCEPT !.pc = "resolution"]
    /\ op' = Op("universal_console_init", 0, NoPre)
    /\ UNCHANGED <<console, hw>>
    /\ BootKeeps

(* detect_display_resolution, lines 302-329, up to the wait of             *)
(* mailbox_write.                                                          *)
ResolutionBegin ==
    /\ boot.pc = "resolution"
    /\ boot' =
         IF current_platform.platform = PLATFORM_QEMU_VERSATILE
         THEN [boot EXCEPT !.pc = "resolution_returned", !.width = QEMU_WIDTH,
                           !.height = QEMU_HEIGHT, !.resolution_result = 0]
         ELSE IF ~mailbox_available(current_platform)
         THEN [boot EXCEPT !.pc = "resolution_returned", !.width = QEMU_WIDTH,
                           !.height = QEMU_HEIGHT, !.resolution_result = -1]
         ELSE [boot EXCEPT !.pc = "res_write_wait"]
    /\ UNCHANGED <<current_platform, console, hw, op>>
    /\ BootKeeps

(* The addresses of the static request blocks of detect_display_resolution *)
(* and setup_framebuffer, which their type aligns to 16 bytes.             *)
REQUEST_ADDRESS    == <<1, 4096>>
FB_REQUEST_ADDRESS == <<1, 4272>>

request_in_flight(pc) ==
    IF pc \in {"res_write_wait", "res_read_wait"}
    THEN REQUEST_ADDRESS ELSE FB_REQUEST_ADDRESS

(* The word stored with the channel left out. *)
mailbox_word_no_channel(channel, data) ==
    <<data[1], data[2] - (data[2] % 16)>>

(* mailbox_write, line 237: (data & 0xFFFFFFF0) | (channel & 0xF) *)
mailbox_word(channel, data) ==
    <<data[1], (data[2] - (data[2] % 16)) + (channel % 16)>>

(* mailbox_read, line 248, returning the word as read. *)
mailbox_data_unmasked(word) == word

(* mailbox_read, line 248: data & 0xFFFFFFF0 *)
mailbox_data(word) == <<word[1], word[2] - (word[2] % 16)>>

(* mailbox_write written to give up on a full mailbox. *)
MailboxWritePollGivesUp ==
    /\ boot.pc \in {"res_write_wait", "fb_write_wait"}
    /\ hw' = [hw EXCEPT !.mailbox_touched = TRUE]
    /\ boot' = [boot EXCEPT !.pc = IF boot.pc = "res_write_wait"
                                    THEN "res_reply" ELSE "fb_reply"]
    /\ UNCHANGED <<current_platform, console, op>>
    /\ BootKeeps

(* mailbox_write, lines 235-237: one test of the FULL bit, and the store   *)
(* of the request's address and channel once it is clear.  The store may   *)
(* fill the mailbox.                                                       *)
MailboxWritePoll ==
    /\ boot.pc \in {"res_write_wait", "fb_write_wait"}
    /\ IF hw.full
       THEN /\ hw' = [hw EXCEPT !.mailbox_touched = TRUE]
            /\ UNCHANGED boot
       ELSE /\ \E f \in BOOLEAN :
                 hw' = [hw EXCEPT
                          !.mailbox_touched = TRUE,
                          !.full = f,
                          !.written = Append(@, mailbox_word(MAILBOX_CHANNEL_GPU,
                                                             request_in_flight(boot.pc)))]
            /\ boot' = [boot EXCEPT !.pc = IF boot.pc = "res_write_wait"
                                            THEN "res_read_wait" ELSE "fb_read_wait"]
    /\ UNCHANGED <<current_platform, console, op>>
    /\ BootKeeps

(* mailbox_read, lines 244-248: one test of the EMPTY bit, and once it is  *)
(* clear the read of a word, which ends the loop when the word carries the *)
(* channel asked for.                                                      *)
MailboxReadPoll ==
    /\ boot.pc \in {"res_read_wait", "fb_read_wait"}
    /\ IF hw.reply = <<>>
       THEN /\ hw' = [hw EXCEPT !.mailbox_touched = TRUE]
            /\ UNCHANGED boot
       ELSE /\ hw' = [hw EXCEPT !.mailbox_touched = TRUE, !.reply = Tail(@)]
            /\ boot' = IF Head(hw.reply)[2] % 16 = MAILBOX_CHANNEL_GPU
                       THEN [boot EXCEPT !.pc = IF boot.pc = "res_read_wait"
                                                 THEN "res_reply" ELSE "fb_reply",
                                         !.mailbox_result = mailbox_data(Head(hw.reply))]
                       ELSE boot
    /\ UNCHANGED <<current_platform, console, op>>
    /\ BootKeeps

(* detect_display_resolution, lines 332-351 *)
ResolutionEnd ==
    /\ boot.pc = "res_reply"
    /\ LET a == resolution_answer(current_platform.platform, hw.request)
       IN boot' = [boot EXCEPT !.pc = "resolution_returned", !.width = a[1],
                               !.height = a[2], !.resolution_result = a[3]]
    /\ UNCHANGED <<current_platform, console, hw, op>>
    /\ BootKeeps

(* universal_console_init, lines 851-866: the fallback of a failed         *)
(* detection.                                                              *)
InitFallback ==
    /\ boot.pc = "resolution_returned"
    /\ boot' =
         IF boot.resolution_result # 0
         THEN LET f == init_fallback(current_platform.platform)
              IN [boot EXCEPT !.pc = "setup", !.width = f[1], !.height = f[2]]
         ELSE [boot EXCEPT !.pc = "setup"]
    /\ UNCHANGED <<current_platform, console, hw, op>>
    /\ BootKeeps

(* setup_framebuffer, lines 354-416, up to the wait of mailbox_write. *)
SetupBegin ==
    /\ boot.pc = "setup"
    /\ IF current_platform.platform = PLATFORM_QEMU_VERSATILE
       THEN /\ console' = setup_framebuffer_qemu(console, boot.width, boot.height)
            /\ boot' = [boot EXCEPT !.pc = "setup_returned", !.setup_result = 0]
            /\ UNCHANGED hw
       ELSE IF ~mailbox_available(current_platform)
       THEN /\ boot' = [boot EXCEPT !.pc = "setup_returned", !.setup_result = -1]
            /\ UNCHANGED <<console, hw>>
       ELSE /\ hw' = [hw EXCEPT !.fb_request.set_width = boot.width,
                                !.fb_request.set_height = boot.height,
                                !.fb_request.virtual_width = boot.width,
                                !.fb_request.virtual_height = boot.height]
            /\ boot' = [boot EXCEPT !.pc = "fb_write_wait"]
            /\ UNCHANGED console
    /\ UNCHANGED <<current_platform, op>>
    /\ BootKeeps

(* setup_framebuffer, lines 419-455 *)
SetupEnd ==
    /\ boot.pc = "fb_reply"
    /\ IF hw.fb_request.code # RESPONSE_SUCCESS
       THEN /\ boot' = [boot EXCEPT !.pc = "setup_returned", !.setup_result = -1]
            /\ UNCHANGED console
       ELSE /\ console' = setup_framebuffer_answer(console, current_platform.platform,
                                                   hw.fb_request)
            /\ boot' = [boot EXCEPT !.pc = "setup_returned", !.setup_result = 0]
    /\ UNCHANGED <<current_platform, hw, op>>
    /\ BootKeeps

(* universal_console_init, lines 868-873: the return of -1 when            *)
(* setup_framebuffer failed; else init_ps2_devices, lines 485-489, up to   *)
(* the wait of ps2_write_data.                                             *)
InitAfterSetup ==
    /\ boot.pc = "setup_returned"
    /\ boot' =
         IF boot.setup_result # 0
         THEN [boot EXCEPT !.pc = "failed", !.result = -1]
         ELSE IF current_platform.platform # PLATFORM_QEMU_VERSATILE
         THEN [boot EXCEPT !.pc = "buffer"]
         ELSE [boot EXCEPT !.pc = "ps2_reset_wait"]
    /\ UNCHANGED <<current_platform, console, hw, op>>
    /\ BootKeeps

(* ps2_write_data written to store its byte without the wait. *)
Ps2WritePollNoWait ==
    /\ boot.pc \in {"ps2_reset_wait", "ps2_enable_wait"}
    /\ hw' = [hw EXCEPT !.mouse_sent = Append(@, IF boot.pc = "ps2_reset_wait"
                                                  THEN 255 ELSE 244)]
    /\ boot' = [boot EXCEPT !.pc = IF boot.pc = "ps2_reset_wait"
                                    THEN "ps2_enable_wait" ELSE "buffer"]
    /\ console' = IF boot.pc = "ps2_reset_wait" THEN console
                  ELSE init_ps2_devices(current_platform, console)
    /\ UNCHANGED <<current_platform, op>>
    /\ BootKeeps

(* ps2_write_data, lines 481-482: one test of the TXBUSY bit of the mouse  *)
(* port, and the store of the byte once it is clear (0xFF, then 0xF4);     *)
(* the store may make the port busy.  After the second byte                *)
(* init_ps2_devices sets the two availability flags, lines 492-493.        *)
Ps2WritePoll ==
    /\ boot.pc \in {"ps2_reset_wait", "ps2_enable_wait"}
    /\ IF hw.txbusy
       THEN UNCHANGED <<hw, boot, console>>
       ELSE /\ \E t \in BOOLEAN :
                 hw' = [hw EXCEPT
                          !.txbusy = t,
                          !.mouse_sent = Append(@, IF boot.pc = "ps2_reset_wait"
                                                   THEN 255 ELSE 244)]
            /\ boot' = [boot EXCEPT !.pc = IF boot.pc = "ps2_reset_wait"
                                            THEN "ps2_enable_wait" ELSE "buffer"]
            /\ console' = IF boot.pc = "ps2_reset_wait" THEN console
                          ELSE init_ps2_devices(current_platform, console)
    /\ UNCHANGED <<current_platform, op>>
    /\ BootKeeps

(* universal_console_init, lines 878-882: init_console_buffer and          *)
(* clear_screen                                                            *)
InitBuffer ==
    /\ boot.pc = "buffer"
    /\ \E c \in {init_console_buffer(console, MAX_BUFFER_LINES)} :
          /\ console' \in after_drawing(c, clear_screen(c))
          /\ hw' = [hw EXCEPT !.pixels_stored = clear_screen(c).pixels,
                              !.pixels_beyond = clear_screen(c).beyond]
    /\ boot' = [boot EXCEPT !.pc = "banner"]
    /\ op' = Op("init_console_buffer", 0, NoPre)
    /\ UNCHANGED current_platform
    /\ BootKeeps

(* The firmware takes a word out of the full mailbox. *)
FirmwareClearsFull ==
    /\ hw.full
    /\ hw' = [hw EXCEPT !.full = FALSE]
    /\ UNCHANGED <<current_platform, console, boot, op>>
    /\ BootKeeps

(* The firmware answers the request in flight: it writes the response into *)
(* the request block and puts a word with the GPU channel in the read      *)
(* register.  A response with code 0 is a reply to a block left as it was. *)
FirmwareReplies ==
    /\ boot.pc \in {"res_read_wait", "fb_read_wait"}
    /\ Len(hw.reply) < MailboxDepth
    /\ \E c \in ResponseCodes :
          IF boot.pc = "res_read_wait"
          THEN \E d \in PhysicalSizes :
                  hw' = [hw EXCEPT
                           !.reply = Append(@, mailbox_word(MAILBOX_CHANNEL_GPU,
                                                           request_in_flight(boot.pc))),
                           !.request = IF c = WORD_ZERO THEN @
                                       ELSE [code |-> c, physical_width |-> d[1],
                                             physical_height |-> d[2]]]
          ELSE \E g \in GrantedSizes \cup {<<hw.fb_request.set_width,
                                             hw.fb_request.set_height>>},
                  a \in GrantedAddresses, bpp \in {0, 4} :
                  hw' = [hw EXCEPT
                           !.reply = Append(@, mailbox_word(MAILBOX_CHANNEL_GPU,
                                                           request_in_flight(boot.pc))),
                           !.fb_request = IF c = WORD_ZERO THEN @
                                          ELSE [@ EXCEPT !.code = c,
                                                         !.set_width = g[1],
                                                         !.set_height = g[2],
                                                         !.fb_address = a,
                                                         !.pitch = bpp * g[1]]]
    /\ UNCHANGED <<current_platform, console, boot, op>>
    /\ BootKeeps

(* The firmware puts a word of another channel in the read register. *)
FirmwareRepliesElsewhere ==
    /\ boot.pc \in {"res_read_wait", "fb_read_wait"}
    /\ Len(hw.reply) < MailboxDepth
    /\ \E ch \in ReplyChannels \ {MAILBOX_CHANNEL_GPU} :
          hw' = [hw EXCEPT !.reply = Append(@, mailbox_word(ch,
                                                  request_in_flight(boot.pc)))]
    /\ UNCHANGED <<current_platform, console, boot, op>>
    /\ BootKeeps

(* The mouse port has sent its byte. *)
PortClearsTxBusy ==
    /\ hw.txbusy
    /\ hw' = [hw EXCEPT !.txbusy = FALSE]
    /\ UNCHANGED <<current_platform, console, boot, op>>
    /\ BootKeeps

(* The steps of the program. *)
BootStep ==
    \/ BootDetect
    \/ ResolutionBegin
    \/ MailboxWritePoll
    \/ MailboxReadPoll
    \/ ResolutionEnd
    \/ InitFallback
    \/ SetupBegin
    \/ SetupEnd
    \/ InitAfterSetup
    \/ Ps2WritePoll
    \/ InitBuffer
    \/ \E k \in KeyboardWords, m \in MouseWords : ConsoleUpdate(k, m)

NextBoot ==
    \/ BootStep
    \/ FirmwareClearsFull
    \/ FirmwareReplies
    \/ FirmwareRepliesElsewhere
    \/ PortClearsTxBusy

(* The CPU always runs the program; nothing is assumed of the hardware. *)
SpecBoot == InitBoot /\ [][NextBoot]_vars /\ WF_vars(BootStep)

-----------------------------------------------------------------------------
IsChip == current_platform.platform \in ChipFamilies

(* The physical-size query did not end with response code 0x80000000 and a *)
(* non-zero width and height.                                              *)
ResolutionFailed ==
    ~(/\ hw.request.code = <<32768, 0>>
      /\ hw.request.physical_width # 0
      /\ hw.request.physical_height # 0)

FallbackTable ==
    CASE current_platform.platform = PLATFORM_PI_BCM2711 -> <<1920, 1080>>
      [] current_platform.platform = PLATFORM_PI_BCM2837 -> <<1680, 1050>>
      [] current_platform.platform = PLATFORM_PI_BCM2837B0 -> <<1680, 1050>>
      [] current_platform.platform = PLATFORM_PI_BCM2836 -> <<1280, 1024>>
      [] OTHER -> <<1024, 768>>

(* C13: when the physical-size query fails, universal_console_init hands   *)
(* the platform's fallback resolution (BCM2711 1920x1080, BCM2837 and      *)
(* BCM2837B0 1680x1050, BCM2836 1280x1024, else 1024x768) to               *)
(* setup_framebuffer, which requests it from the firmware; initialisation  *)
(* stops only where setup_framebuffer returned -1.                         *)
C13_FallbackResolution ==
    /\ (IsChip /\ ResolutionFailed /\ boot.pc = "setup") =>
          <<boot.width, boot.height>> = FallbackTable
    /\ (IsChip /\ ResolutionFailed /\ boot.pc = "fb_write_wait") =>
          /\ <<hw.fb_request.set_width, hw.fb_request.set_height>> = FallbackTable
          /\ <<hw.fb_request.virtual_width, hw.fb_request.virtual_height>> = FallbackTable
    /\ (IsChip /\ ResolutionFailed /\ boot.pc = "fb_read_wait") =>
          hw.written = <<<<1, 4104>>, <<1, 4280>>>>
    /\ boot.pc = "failed" => (boot.setup_result = -1 /\ Len(hw.written) = 2)

(* The firmware answered the size query with code 0x80000000 and a height  *)
(* of 0, and the BCM2711 fallback is being requested.                      *)
C13_Witness ==
    /\ boot.pc = "fb_read_wait"
    /\ current_platform.platform = PLATFORM_PI_BCM2711
    /\ hw.request.code = <<32768, 0>>
    /\ hw.request.physical_height = 0
    /\ hw.fb_request.set_width = 1920
    /\ hw.fb_request.set_height = 1080
    /\ hw.reply = <<>>

(* universal_console_init has returned, or has reached its banner. *)
BootEnded == boot.pc \in {"failed", "banner"}

(* C14: a failed framebuffer negotiation is not fatal: whenever            *)
(* universal_console_init has ended on a chip family, also after an        *)
(* allocation request that did not end with code 0x80000000, it has        *)
(* initialised the text buffer and has not returned an error.              *)
C14_SetupFailureNotFatal ==
    (IsChip /\ BootEnded) =>
        /\ boot.pc = "banner"
        /\ boot.result = 0
        /\ console.buffer_lines = MAX_BUFFER_LINES
        /\ console.cursor_visible

-----------------------------------------------------------------------------
WriteWaits == {"res_write_wait", "fb_write_wait"}
ReadWaits  == {"res_read_wait", "fb_read_wait"}

(* No step of the program leaves the wait of mailbox_write while FULL is   *)
(* set, nor the wait of mailbox_read while the read register is empty or   *)
(* holds a word of another channel.                                        *)
MailboxNoTimeout ==
    [][/\ (boot.pc \in WriteWaits /\ hw.full) => boot'.pc = boot.pc
       /\ (boot.pc \in ReadWaits /\ hw.reply = <<>>) => boot'.pc = boot.pc
       /\ (boot.pc \in ReadWaits /\ hw.reply # <<>> /\ Head(hw.reply)[2] % 16 # 8)
             => boot'.pc = boot.pc]_vars

(* The firmware eventually empties a full mailbox and eventually answers   *)
(* a request in flight on the GPU channel.                                 *)
FirmwareFair ==
    /\ WF_vars(FirmwareClearsFull)
    /\ SF_vars(FirmwareReplies)

RendezvousEnds ==
    \A w \in WriteWaits \cup ReadWaits : (boot.pc = w) ~> (boot.pc # w)

(* C15: the mailbox rendezvous has no timeout.  The program stays in the   *)
(* wait of mailbox_write as long as FULL is set and in the wait of         *)
(* mailbox_read as long as no word of channel 8 is read, and takes no      *)
(* failure path out of either; when the firmware eventually clears FULL    *)
(* and eventually replies on channel 8, every rendezvous ends.             *)
C15_MailboxNoTimeout ==
    /\ MailboxNoTimeout
    /\ FirmwareFair => RendezvousEnds

(* The program is held in the second rendezvous by a full mailbox. *)
C15_Witness ==
    /\ boot.pc = "fb_write_wait"
    /\ hw.full
    /\ hw.mailbox_touched
    /\ Len(hw.written) = 1

-----------------------------------------------------------------------------
Ps2Waits == {"ps2_reset_wait", "ps2_enable_wait"}

EmulatorBoots == boot.pc = "detect" /\ mem = QemuFixture

InitReturned == boot.pc \in {"banner", "failed"}

(* Every tick of console_update that starts also ends: the program is     *)
(* never for ever at the start of its n-th tick.                           *)
TicksEnd ==
    \A n \in 0..(MaxTicks - 1) :
        []<>~(boot.pc = "banner" /\ console.cursor_blink_counter = n)

-----------------------------------------------------------------------------
SetupReturned ==
    boot.pc \in {"setup_returned", "ps2_reset_wait", "ps2_enable_wait",
                 "buffer", "banner", "failed"}

(* C17: on the emulator the program never reads or writes a mailbox        *)
(* register, and once setup_framebuffer has returned it has returned 0     *)
(* with width 640, height 480, pitch 640, framebuffer 0x200000, 80 columns *)
(* and 29 rows; universal_console_init does not fail.                      *)
C17_EmulatorDisplay ==
    IsQemu =>
        /\ ~hw.mailbox_touched
        /\ hw.written = <<>>
        /\ boot.pc # "failed"
        /\ SetupReturned =>
              /\ boot.setup_result = 0
              /\ console.width = 640
              /\ console.height = 480
              /\ console.pitch = 640
              /\ console.framebuffer = <<32, 0>>
              /\ console.console_cols = 80
              /\ console.console_rows = 29

(* The emulator's startup has run to its end. *)
C17_Witness ==
    /\ IsQemu
    /\ boot.pc = "banner"
    /\ boot.setup_result = 0
    /\ console.console_cols = 80
    /\ console.buffer_lines = MAX_BUFFER_LINES

-----------------------------------------------------------------------------
(* C18: after a successful mailbox negotiation console_cols is             *)
(* max(40, width / 8) and console_rows is max(15, (height - 16) / 16)      *)
(* with the subtraction and the division over the integers, so a height    *)
(* below the 16-pixel status bar gives 15 rows.                            *)
C18_MinimumGeometry ==
    (IsChip /\ SetupReturned /\ boot.setup_result = 0) =>
        /\ console.console_cols = Max(MIN_CONSOLE_COLS, console.width \div FONT_WIDTH)
        /\ console.console_rows =
              Max(MIN_CONSOLE_ROWS, (console.height - STATUS_BAR_HEIGHT) \div FONT_HEIGHT)

-----------------------------------------------------------------------------
(* SpecMouse: mouse packets on the emulator. *)

(* Mouse registers <<status, data>>: RXFULL clear; RXFULL set with 0x08,   *)
(* 5, 0xFD (-3) and 0x82 (right button, or -126).                          *)
MousePacketWords == {<<67, 8>>} \cup {<<83, b>> : b \in {8, 5, 253, 130}}

InitMouse == ConsoleInit({QemuFixture}, {NarrowDisplay}, BufferLines)

NextMouse == \E w \in MousePacketWords : Mouse(w)

SpecMouse == InitMouse /\ [][NextMouse]_vars

Int8(b) == ((b + 128) % 256) - 128

Clamp(v, lo, hi) == Max(lo, Min(v, hi))

(* C19: the step of handle_mouse_input that stores the third byte of a     *)
(* packet (b0, b1, b2) sets mouse_buttons to b0, mouse_x to                *)
(* clamp(mouse_x + int8(b1), 0, width - 1) and mouse_y to                  *)
(* clamp(mouse_y - int8(b2), 0, height - 1).                               *)
C19_MouseDecode ==
    [][(op'.name = "handle_mouse_input" /\ op'.arg # 0 /\ packet_index = 2) =>
          /\ packet_index' = 0
          /\ console'.mouse_buttons = mouse_packet[0]
          /\ console'.mouse_x =
                Clamp(console.mouse_x + Int8(mouse_packet[1]), 0, console.width - 1)
          /\ console'.mouse_y =
                Clamp(console.mouse_y - Int8(op'.arg), 0, console.height - 1)]_vars

(* The packet (0x08, 5, -3) has moved the pointer from (0, 0) to (5, 3). *)
C19_Witness ==
    /\ op.name = "handle_mouse_input"
    /\ packet_index = 0
    /\ mouse_packet = [i \in 0..2 |-> <<8, 5, 253>>[i + 1]]
    /\ console.mouse_buttons = 8
    /\ console.mouse_x = 5
    /\ console.mouse_y = 3

-----------------------------------------------------------------------------
(* SpecTick: output to the console and ticks of console_update, on the     *)
(* emulator and on a board of each detectable chip family.                 *)
InitTick == ConsoleInit(BootFixtures, {NarrowDisplay}, BufferLines)

TickPutChar(c) ==
    /\ console.cursor_blink_counter = 0
    /\ PutChar(c)

NextTick ==
    \/ \E c \in {10, 97} : TickPutChar(c)
    \/ \E k \in KeyboardWords, m \in MouseWords : ConsoleUpdate(k, m)

SpecTick == InitTick /\ [][NextTick]_vars

Ticked == op.name = "console_update"

(* C20: on a profile without has_ps2 a tick of console_update reads no     *)
(* PS/2 register and changes nothing but cursor_blink_counter, which it    *)
(* increments; scroll_position, display_start, mouse_x, mouse_y and        *)
(* mouse_buttons keep their values.                                        *)
C20_InputNoOp ==
    [][(op'.name = "console_update" /\ ~current_platform.has_ps2) =>
          /\ op'.arg = 0
          /\ console' = [console EXCEPT
                           !.cursor_blink_counter = console.cursor_blink_counter + 1]
          /\ console'.scroll_position = console.scroll_position
          /\ console'.display_start = console.display_start
          /\ console'.mouse_x = console.mouse_x
          /\ console'.mouse_y = console.mouse_y
          /\ console'.mouse_buttons = console.mouse_buttons
          /\ UNCHANGED <<mouse_packet, packet_index, current_platform>>]_vars

(* A board has ticked with its window scrolled away from the top. *)
C20_Witness ==
    /\ Ticked
    /\ IsChip
    /\ ~current_platform.has_ps2
    /\ console.cursor_blink_counter = MaxTicks
    /\ console.display_start > 0

-----------------------------------------------------------------------------
(* C21: render_console, as the last call of a console_update tick, leaves  *)
(* every cell, the cursor position and the current colours as they were,   *)
(* and on a profile whose input handlers do nothing display_start and      *)
(* scroll_position too; with no framebuffer address neither it nor the     *)
(* clear_screen of universal_console_init stores a pixel.                  *)
C21_RenderingPureRead ==
    [][/\ op'.name = "console_update" =>
             /\ console'.buffer = console.buffer
             /\ console'.current_line = console.current_line
             /\ console'.current_col = console.current_col
             /\ console'.current_fg = console.current_fg
             /\ console'.current_bg = console.current_bg
             /\ ~current_platform.has_ps2 =>
                   /\ console'.display_start = console.display_start
                   /\ console'.scroll_position = console.scroll_position
             /\ console'.framebuffer = WORD_ZERO => ~hw'.pixels_stored
       /\ (boot.pc = "buffer" /\ boot'.pc = "banner" /\ console'.framebuffer = WORD_ZERO)
             => ~hw'.pixels_stored]_vars

-----------------------------------------------------------------------------
(* SpecColor: the output functions with the pending colours set to palette *)
(* colours and to words that are not fully opaque.                         *)
AnyColorPairs ==
    {<<COLOR_YELLOW, COLOR_BLUE>>, <<<<0, 255>>, WORD_ZERO>>}

(* console_set_color(fg, bg) *)
SetColor(fg, bg) ==
    /\ console' = console_set_color(console, fg, bg)
    /\ op' = Op("console_set_color", 0, NoPre)
    /\ UNCHANGED <<mem, current_platform, mouse_packet, packet_index, boot, hw>>

InitColor == ConsoleInit({QemuFixture}, {NarrowDisplay}, BufferLines)

NextColor ==
    \/ \E p \in AnyColorPairs : SetColor(p[1], p[2])
    \/ \E c \in {10, 97} : PutChar(c)
    \/ Clear

SpecColor == InitColor /\ [][NextColor]_vars

Opaque(w) == w[1] \div 256 = 255

CellsOpaque(con) ==
    \A i \in DOMAIN con.buffer :
        Opaque(con.buffer[i].foreground) /\ Opaque(con.buffer[i].background)

(* C22 as stated: every cell of the buffer has a fully opaque foreground   *)
(* and background, whatever was passed to console_set_color.               *)
C22_CellsOpaque == CellsOpaque(console)

AllOpaque(con) ==
    CellsOpaque(con) /\ Opaque(con.current_fg) /\ Opaque(con.current_bg)

(* C22, amended: the cells and the pending colours are fully opaque after  *)
(* initialisation, and stay so over every call of the output functions     *)
(* except a console_set_color that is passed a colour that is not.         *)
C22_OpaqueWhileSetOpaque ==
    /\ AllOpaque(console)
    /\ [][(/\ AllOpaque(console)
           /\ op'.name = "console_set_color" =>
                 Opaque(console'.current_fg) /\ Opaque(console'.current_bg))
          => AllOpaque(console')]_vars

(* A character was written in yellow on blue. *)
C22_Witness ==
    /\ AllOpaque(console)
    /\ \E i \in DOMAIN console.buffer :
          /\ console.buffer[i].character = 97
          /\ console.buffer[i].foreground = COLOR_YELLOW
          /\ console.buffer[i].background = COLOR_BLUE

-----------------------------------------------------------------------------
(* unified_decrypt of src/main.1.c and of src2/main.1copy.c.               *)
(*                                                                         *)
(* A call is a record: the arguments (a pointer is TRUE when it is not     *)
(* NULL), the two pointers of *ctrl, and the answers of the two functions  *)
(* the call depends on: whether malloc returns a block, and the status     *)
(* decrypt_memory returns.  The outcome is the value returned, whether     *)
(* decrypt_memory was called, and the pointers of *ctrl after the call.    *)
DecryptOutcome(result, called, key, pass) ==
    [result |-> result, decrypt_called |-> called,
     ctrl_session_key |-> key, ctrl_passphrase |-> pass]

(* Lines 65-114 of main.1.c and 57-108 of main.1copy.c, which are the      *)
(* same: the value returned before decrypt_memory is called, or 0 when the *)
(* call goes on to it.                                                     *)
decrypt_setup(call) ==
    IF ~call.ctrl \/ ~call.encrypted_data \/ call.data_len = 0
    THEN DecryptOutcome(-1, FALSE, call.ctrl_session_key, call.ctrl_passphrase)
    ELSE IF call.session_key /\ call.key_len > 0
    THEN IF call.malloc_ok
         THEN DecryptOutcome(0, TRUE, TRUE, FALSE)
         ELSE DecryptOutcome(-1, FALSE, FALSE, FALSE)
    ELSE IF call.passphrase
    THEN IF call.malloc_ok
         THEN DecryptOutcome(0, TRUE, FALSE, TRUE)
         ELSE DecryptOutcome(-1, FALSE, FALSE, FALSE)
    ELSE DecryptOutcome(-1, FALSE, FALSE, FALSE)

(* unified_decrypt of src/main.1.c, lines 61-144 *)
unified_decrypt(call) ==
    LET s == decrypt_setup(call)
    IN IF ~s.decrypt_called THEN s
       ELSE DecryptOutcome(IF call.rc # 0 THEN call.rc ELSE 0, TRUE, FALSE, FALSE)

(* unified_decrypt of src2/main.1copy.c, lines 54-143 *)
unified_decrypt_src2(call) ==
    LET s == decrypt_setup(call)
    IN IF ~s.decrypt_called THEN s
       ELSE DecryptOutcome(IF call.rc = 2 THEN call.rc ELSE 0, TRUE, FALSE, FALSE)

(* The statuses of decrypt_memory: success, the failure status 2 that      *)
(* main.1copy.c tests for, and two other failures.                         *)
DecryptStatuses == {0, 2, 1, -1}

DecryptCalls ==
    [ctrl : BOOLEAN, ctrl_session_key : BOOLEAN, ctrl_passphrase : {FALSE},
     session_key : BOOLEAN, key_len : {0, 16}, passphrase : BOOLEAN,
     encrypted_data : BOOLEAN, data_len : {0, 5},
     malloc_ok : BOOLEAN, rc : DecryptStatuses]

(* SpecDecrypt: one call of either unified_decrypt.  mem is the call, op   *)
(* the function called and op.arg its outcome.                             *)
InitDecrypt ==
    /\ mem \in {c \in DecryptCalls : c.ctrl \/ ~c.ctrl_session_key}
    /\ current_platform = ZeroPlatform
    /\ console = ZeroConsole
    /\ mouse_packet = [i \in 0..2 |-> 0]
    /\ packet_index = 0
    /\ op = Op("main", DecryptOutcome(0, FALSE, FALSE, FALSE), NoPre)
    /\ boot = BootAt("detect")
    /\ hw = QuietHardware

UnifiedDecrypt ==
    /\ op.name = "main"
    /\ op' = Op("unified_decrypt", unified_decrypt(mem), NoPre)
    /\ UNCHANGED <<mem, current_platform, console, mouse_packet, packet_index, boot, hw>>

UnifiedDecryptSrc2 ==
    /\ op.name = "main"
    /\ op' = Op("unified_decrypt_src2", unified_decrypt_src2(mem), NoPre)
    /\ UNCHANGED <<mem, current_platform, console, mouse_packet, packet_index, boot, hw>>

NextDecrypt == UnifiedDecrypt \/ UnifiedDecryptSrc2

SpecDecrypt == InitDecrypt /\ [][NextDecrypt]_vars

DecryptReturned == op.name \in {"unified_decrypt", "unified_decrypt_src2"}

(* C23: either unified_decrypt returns 0 exactly when decrypt_memory was   *)
(* called and returned 0, and a negative value in every other case:        *)
(* invalid arguments, a failed allocation, no key and no passphrase, or a  *)
(* non-zero status of decrypt_memory.                                      *)
C23_ZeroOnlyOnSuccess ==
    DecryptReturned =>
        LET success == op.arg.decrypt_called /\ mem.rc = 0
        IN /\ op.arg.result = 0 <=> success
           /\ ~success => op.arg.result < 0

-----------------------------------------------------------------------------
(* SpecFraming: the mouse's byte stream on the emulator, zero bytes        *)
(* included.  Mouse registers <<status, data>>: RXFULL clear; RXFULL set   *)
(* with 0x00, 0x01 and 0xFF (-1).                                          *)
FramingWords == {<<67, 1>>} \cup {<<83, b>> : b \in {0, 1, 255}}

NextFraming == \E w \in FramingWords : Mouse(w)

SpecFraming == InitMouse /\ [][NextFraming]_vars

(* C24: every poll of the mouse that finds RXFULL set stores the byte      *)
(* received, 0x00 included, at the packet index and moves the index        *)
(* 0 -> 1 -> 2 -> 0.                                                       *)
C24_EveryByteFramed ==
    [][(op'.name = "handle_mouse_input" /\ op'.rxfull) =>
          /\ mouse_packet'[packet_index] = op'.arg
          /\ packet_index' = (packet_index + 1) % 3]_vars

-----------------------------------------------------------------------------
(* The request blocks as the firmware sees them: display_request_t word by *)
(* word, 41 words padded to 176 bytes.  A field that an initialiser does   *)
(* not name is 0.                                                          *)
TAG_GET_PHYSICAL == 262147      \* 0x40003
TAG_SET_PHYSICAL == 294915      \* 0x48003
TAG_SET_VIRTUAL  == 294916      \* 0x48004
TAG_SET_DEPTH    == 294917      \* 0x48005
TAG_ALLOCATE     == 262145      \* 0x40001
TAG_GET_PITCH    == 262152      \* 0x40008

(* static display_request_t request of detect_display_resolution *)
request_words(r) ==
    <<176, r.code,
      TAG_GET_PHYSICAL, 8, 0, r.physical_width, r.physical_height>>
    \o [i \in 1..34 |-> 0]

(* static display_request_t fb_request of setup_framebuffer *)
fb_request_words(r) ==
    <<176, r.code,
      0, 0, 0, 0, 0,
      TAG_SET_PHYSICAL, 8, 0, r.set_width, r.set_height,
      TAG_SET_VIRTUAL, 8, 0, r.virtual_width, r.virtual_height,
      TAG_SET_DEPTH, 4, 0, r.depth,
      TAG_ALLOCATE, 8, 0, r.fb_address, r.fb_size,
      TAG_GET_PITCH, 4, 0, r.pitch,
      0>>

(* The tags a firmware processes that reads the block from its third word: *)
(* a tag, the byte size of its value, a code and the value, up to the      *)
(* first zero tag.                                                         *)
RECURSIVE tags_from(_, _)
tags_from(words, i) ==
    IF i > Len(words) THEN <<>>
    ELSE IF words[i] = 0 THEN <<>>
    ELSE <<words[i]>> \o tags_from(words, i + 3 + (words[i + 1] \div 4))

firmware_tags(words) == tags_from(words, 3)

(* C25: the allocation request in flight presents the tags set physical    *)
(* size, set virtual size, set depth, allocate buffer and get pitch, in     *)
(* this order, to a firmware that reads tags from the start of the block    *)
(* up to the first zero tag.                                                *)
C25_AllocationTagsPresented ==
    boot.pc \in {"fb_read_wait", "fb_reply"} =>
        firmware_tags(fb_request_words(hw.fb_request)) =
            <<TAG_SET_PHYSICAL, TAG_SET_VIRTUAL, TAG_SET_DEPTH, TAG_ALLOCATE,
              TAG_GET_PITCH>>

(* The size query in flight presents its one tag. *)
SizeQueryTagPresented ==
    boot.pc \in {"res_read_wait", "res_reply"} =>
        firmware_tags(request_words(hw.request)) = <<TAG_GET_PHYSICAL>>

-----------------------------------------------------------------------------
(* C26: scroll_position, the scroll offset of the status line, equals      *)
(* display_start, the top visible line, in every state.                    *)
C26_ScrollOffsetIsWindowTop ==
    console.scroll_position = console.display_start

-----------------------------------------------------------------------------
(* init_console_buffer, line 505: the cells of static_buffer *)
StaticBufferCells == MAX_BUFFER_LINES * 240

(* C27: once the console buffer is set up, buffer_lines * console_cols,    *)
(* the bound of the cell indices that get_cell, scroll_buffer_up,          *)
(* console_putchar and console_clear use, is at most the 3000 x 240 cells  *)
(* of the static buffer.                                                   *)
C27_CellsWithinStaticBuffer ==
    boot.pc = "banner" =>
        console.buffer_lines * console.console_cols <= StaticBufferCells

-----------------------------------------------------------------------------
(* The word of the rendezvous at pc as the firmware must receive it: the   *)
(* block's address with its low 4 bits replaced by 8.                      *)
RendezvousWord(pc) ==
    IF pc \in {"res_write_wait", "res_read_wait", "res_reply"}
    THEN <<1, 4096 + 8>> ELSE <<1, 4272 + 8>>

LowBits(w) == w[2] % 16
BitsCleared(w) == <<w[1], w[2] - LowBits(w)>>

(* C28: mailbox_read takes a word out of the read register only in a step  *)
(* that found the register not empty; a word it takes whose low 4 bits are *)
(* not 8 is dropped and the wait goes on; it returns only on a word whose  *)
(* low 4 bits are 8, and returns that word with those bits cleared; and    *)
(* whenever the program is in mailbox_read, the request of that rendezvous *)
(* is the last word stored to the write register.                          *)
C28_MailboxRead ==
    /\ [][/\ Len(hw'.reply) < Len(hw.reply) =>
                /\ boot.pc \in ReadWaits
                /\ hw.reply # <<>>
                /\ hw'.reply = Tail(hw.reply)
          /\ (boot.pc \in ReadWaits /\ hw.reply = <<>>) => boot' = boot
          /\ (boot.pc \in ReadWaits /\ hw.reply # <<>> /\ LowBits(Head(hw.reply)) # 8
                 /\ Len(hw'.reply) < Len(hw.reply)) => boot' = boot
          /\ (boot.pc \in ReadWaits /\ boot'.pc # boot.pc) =>
                /\ hw.reply # <<>>
                /\ LowBits(Head(hw.reply)) = 8
                /\ hw'.reply = Tail(hw.reply)
                /\ boot'.mailbox_result = BitsCleared(Head(hw.reply))
                /\ boot'.pc = IF boot.pc = "res_read_wait"
                              THEN "res_reply" ELSE "fb_reply"]_vars
    /\ [](boot.pc \in ReadWaits =>
             /\ hw.written # <<>>
             /\ hw.written[Len(hw.written)] = RendezvousWord(boot.pc)
             /\ Len(hw.written) = IF boot.pc = "res_read_wait" THEN 1 ELSE 2)

(* mailbox_read has returned from the second rendezvous with the address  *)
(* of the allocation request, and emptied the read register.               *)
C28_Witness ==
    /\ boot.pc = "fb_reply"
    /\ boot.mailbox_result = <<1, 4272>>
    /\ hw.reply = <<>>
    /\ hw.fb_request.code = <<32768, 1>>
    /\ Len(hw.written) = 2

-----------------------------------------------------------------------------
(* C29: a word is stored to the mailbox write register only by a step of   *)
(* mailbox_write that found FULL clear, and the word is the address of the *)
(* request block with its low 4 bits replaced by 8; a step that finds FULL *)
(* set stores nothing; on the emulator nothing is ever stored.             *)
C29_MailboxWrite ==
    /\ [][/\ hw'.written # hw.written =>
                /\ boot.pc \in WriteWaits
                /\ ~hw.full
                /\ hw'.written = Append(hw.written, RendezvousWord(boot.pc))
          /\ (boot.pc \in WriteWaits /\ hw.full) =>
                /\ hw'.written = hw.written
                /\ boot'.pc = boot.pc
          /\ (boot.pc \in WriteWaits /\ boot'.pc # boot.pc) =>
                hw'.written = Append(hw.written, RendezvousWord(boot.pc))]_vars
    /\ [](mem = QemuFixture => hw.written = <<>>)

(* Both requests were stored, the second into a mailbox that had been      *)
(* full, and the store filled it again.                                    *)
C29_Witness ==
    /\ boot.pc = "fb_read_wait"
    /\ hw.written = <<RendezvousWord("res_reply"), RendezvousWord("fb_reply")>>
    /\ hw.full
    /\ hw.reply = <<>>

-----------------------------------------------------------------------------
(* The framebuffer address, the geometry and the console dimensions. *)
Configuration(con) ==
    <<con.framebuffer, con.width, con.height, con.pitch,
      con.console_cols, con.console_rows>>

(* C30: the step of setup_framebuffer that follows the rendezvous installs *)
(* the configuration exactly when the response code of the allocation      *)
(* request is 0x80000000: it then returns 0 with the framebuffer at the    *)
(* translated address, the width and height of the response, and a pitch   *)
(* of the response's pitch in bytes divided by 4; with any other code it   *)
(* returns -1 and leaves framebuffer address, geometry and console         *)
(* dimensions as they were.  The response code is not changed afterwards,  *)
(* so on a chip family setup_framebuffer has returned 0 exactly when the   *)
(* code is 0x80000000.                                                     *)
C30_InstallOnSuccessOnly ==
    /\ [][(boot.pc = "fb_reply" /\ boot'.pc # boot.pc) =>
             /\ boot'.pc = "setup_returned"
             /\ IF hw.fb_request.code = <<32768, 0>>
                THEN /\ boot'.setup_result = 0
                     /\ console'.framebuffer =
                            gpu_to_arm(current_platform.platform,
                                       hw.fb_request.fb_address)
                     /\ console'.width = hw.fb_request.set_width
                     /\ console'.height = hw.fb_request.set_height
                     /\ 4 * console'.pitch <= hw.fb_request.pitch
                     /\ hw.fb_request.pitch < 4 * console'.pitch + 4
                ELSE /\ boot'.setup_result = -1
                     /\ Configuration(console') = Configuration(console)]_vars
    /\ []((IsChip /\ SetupReturned) =>
             /\ boot.setup_result = 0 <=> hw.fb_request.code = <<32768, 0>>
             /\ boot.setup_result # 0 =>
                   Configuration(console) = Configuration(ZeroConsole))

(* A chip family was granted 320 x 8 pixels at bus address 0x40012340 or   *)
(* 0xC0012340 with a pitch of 1280 bytes.                                  *)
C30_Witness ==
    /\ IsChip
    /\ boot.pc = "setup_returned"
    /\ boot.setup_result = 0
    /\ console.framebuffer = <<1, 9024>>
    /\ console.width = 320
    /\ console.pitch = 320

-----------------------------------------------------------------------------
(* Whether console_putchar(c) on con takes the newline path: directly, by  *)
(* a tab whose stop is at or past console_cols, or by a printable          *)
(* character written on the last column.                                   *)
TakesNewline(con, c) ==
    \/ c = 10
    \/ c = 9 /\ ((con.current_col + 8) \div 8) * 8 >= con.console_cols
    \/ c >= 32 /\ c <= 126 /\ con.current_col + 1 >= con.console_cols

(* The line the cursor is on after a newline from con. *)
LineAfterNewline(con) ==
    IF con.current_line + 1 >= con.buffer_lines
    THEN con.buffer_lines - 1 ELSE con.current_line + 1

PutCharStep == op'.name = "console_putchar" /\ <<console, op>> # <<console', op'>>

(* C31: every newline (direct, by tab or by auto-wrap) that moves the      *)
(* cursor to a line >= display_start + console_rows sets display_start and *)
(* scroll_position to current_line - console_rows + 1, wherever the window *)
(* had been scrolled to; a newline that does not leaves both as they were; *)
(* and after every newline                                                 *)
(* display_start <= current_line <= display_start + console_rows - 1.      *)
C31_NewlineFollows ==
    [][(PutCharStep /\ TakesNewline(console, op'.arg)) =>
          LET line == LineAfterNewline(console)
          IN /\ console'.current_line = line
             /\ IF line >= console.display_start + console.console_rows
                THEN /\ console'.display_start = line - console.console_rows + 1
                     /\ console'.scroll_position = line - console.console_rows + 1
                ELSE /\ console'.display_start = console.display_start
                     /\ console'.scroll_position = console.scroll_position
             /\ console'.display_start <= console'.current_line
             /\ console'.current_line
                   <= console'.display_start + console.console_rows - 1]_vars

(* A tab wrapped to the last line and pulled back a window that had been   *)
(* scrolled to the top of the buffer.                                      *)
C31_Witness ==
    /\ op.name = "console_putchar" /\ op.arg = 9
    /\ op.pre = <<0, 0>>
    /\ console.current_col = 0
    /\ console.current_line = console.buffer_lines - 1
    /\ console.display_start = console.current_line - console.console_rows + 1
    /\ console.scroll_position = console.display_start
    /\ console.display_start > 1

-----------------------------------------------------------------------------
(* The cell of con at line and col. *)
CellOf(con, line, col) == cell_at(con.buffer, line * con.console_cols + col)

Columns(con) == 0 .. con.console_cols - 1

(* A blank in the pending colours of con. *)
PendingBlank(con) ==
    [character |-> 32, foreground |-> con.current_fg,
     background |-> con.current_bg, attributes |-> 0]

(* The buffer of after is the buffer of before shifted by one line, with   *)
(* the last line blank in the pending colours.                             *)
ShiftedByOne(before, after) ==
    /\ \A l \in 0 .. before.buffer_lines - 2 : \A col \in Columns(before) :
          CellOf(after, l, col) = CellOf(before, l + 1, col)
    /\ \A col \in Columns(before) :
          CellOf(after, before.buffer_lines - 1, col) = PendingBlank(before)

(* C32: console_putchar('\n') with the cursor on line buffer_lines - 1     *)
(* shifts the buffer: every line but the last takes the cells of the line  *)
(* below it, the last line is all blanks in the pending colours,           *)
(* current_line stays buffer_lines - 1 and current_col becomes 0; a        *)
(* newline on an earlier line changes no cell.                             *)
C32_ShiftScroll ==
    [][(PutCharStep /\ op'.arg = 10) =>
          IF console.current_line = console.buffer_lines - 1
          THEN /\ ShiftedByOne(console, console')
               /\ console'.current_line = console.buffer_lines - 1
               /\ console'.current_col = 0
          ELSE /\ console'.buffer = console.buffer
               /\ console'.current_line = console.current_line + 1
               /\ console'.current_col = 0]_vars

(* A newline has moved an 'a' from the last line to the line above it and  *)
(* left the last line blank on blue.                                       *)
C32_Witness ==
    /\ op.name = "console_putchar" /\ op.arg = 10
    /\ console.current_line = console.buffer_lines - 1
    /\ console.current_col = 0
    /\ CellOf(console, console.buffer_lines - 2, 0).character = 97
    /\ CellOf(console, console.buffer_lines - 1, 0) =
          [character |-> 32, foreground |-> COLOR_YELLOW,
           background |-> COLOR_BLUE, attributes |-> 0]

-----------------------------------------------------------------------------
(* SpecPrint: console_putchar of the first and the last printable          *)
(* character, of the codes next to them, of backspace and of newline,      *)
(* under changing pending colours.                                         *)
PrintChars == {10, 8, 31, 32, 126, 127}

InitPrint == ConsoleInit({QemuFixture}, {NarrowDisplay}, BufferLines)

NextPrint ==
    \/ \E p \in AnyColorPairs : SetColor(p[1], p[2])
    \/ \E c \in PrintChars : PutChar(c)
    \/ Clear

SpecPrint == InitPrint /\ [][NextPrint]_vars

SameCells(before, after) ==
    \A l \in 0 .. before.buffer_lines - 1 : \A col \in Columns(before) :
        CellOf(after, l, col) = CellOf(before, l, col)

SameWindow(before, after) ==
    /\ after.display_start = before.display_start
    /\ after.scroll_position = before.scroll_position

(* after is before with a newline applied: column 0 on the next line; at   *)
(* the end of the buffer the shift-scroll instead; and the auto-follow.    *)
NewlineEffect(before, after) ==
    LET line == LineAfterNewline(before)
    IN /\ after.current_col = 0
       /\ after.current_line = line
       /\ IF before.current_line = before.buffer_lines - 1
          THEN ShiftedByOne(before, after)
          ELSE SameCells(before, after)
       /\ IF line >= before.display_start + before.console_rows
          THEN /\ after.display_start = line - before.console_rows + 1
               /\ after.scroll_position = line - before.console_rows + 1
          ELSE SameWindow(before, after)

(* con with c written at the cursor in the pending colours and the column  *)
(* advanced.                                                               *)
Written(con, c) ==
    [con EXCEPT
       !.buffer = store_cell(@, con.current_line * con.console_cols + con.current_col,
                             [character |-> c, foreground |-> con.current_fg,
                              background |-> con.current_bg, attributes |-> 0]),
       !.current_col = @ + 1]

(* C33: console_putchar(c) with 32 <= c <= 126 writes c in the pending     *)
(* colours into the cell under the cursor, changes no other cell and       *)
(* advances current_col by one, and when the column reaches console_cols   *)
(* goes on exactly as a newline does; with any other c that is not         *)
(* newline, carriage return, tab or backspace the console is unchanged.    *)
C33_Printable ==
    [][PutCharStep =>
          LET c == op'.arg
          IN IF c >= 32 /\ c <= 126
             THEN IF console.current_col + 1 < console.console_cols
                  THEN /\ SameCells(Written(console, c), console')
                       /\ CellOf(console', console.current_line, console.current_col)
                             = [character |-> c, foreground |-> console.current_fg,
                                background |-> console.current_bg, attributes |-> 0]
                       /\ console'.current_col = console.current_col + 1
                       /\ console'.current_line = console.current_line
                       /\ SameWindow(console, console')
                  ELSE NewlineEffect(Written(console, c), console')
             ELSE c \notin {10, 13, 9, 8} => console' = console]_vars

(* A '~' written on the last column of the last line was shifted up by its *)
(* own wrap, and DEL was passed to console_putchar after it.               *)
C33_Witness ==
    /\ op.name = "console_putchar" /\ op.arg = 127
    /\ console.current_line = console.buffer_lines - 1
    /\ console.current_col = 0
    /\ CellOf(console, console.buffer_lines - 2, console.console_cols - 1)
          = [character |-> 126, foreground |-> COLOR_YELLOW,
             background |-> COLOR_BLUE, attributes |-> 0]
    /\ CellOf(console, console.buffer_lines - 2, 0).character = 32
    /\ CellOf(console, console.buffer_lines - 2, 0).background = COLOR_BLACK

-----------------------------------------------------------------------------
(* The smallest multiple of 8 strictly greater than col. *)
NextTabStop(col) ==
    CHOOSE m \in col + 1 .. col + 8 : m % 8 = 0

(* C34: console_putchar('\t') moves current_col to the smallest multiple   *)
(* of 8 strictly greater than it and writes no cell; when that column is   *)
(* >= console_cols it has the effect of a newline instead.                 *)
C34_Tab ==
    [][(PutCharStep /\ op'.arg = 9) =>
          IF NextTabStop(console.current_col) >= console.console_cols
          THEN NewlineEffect(console, console')
          ELSE /\ console'.current_col = NextTabStop(console.current_col)
               /\ console'.current_line = console.current_line
               /\ SameCells(console, console')
               /\ SameWindow(console, console')]_vars

(* A tab from inside the first tab field of the third line of the 9-column *)
(* console has stopped on column 8.                                        *)
C34_Witness ==
    /\ op.name = "console_putchar" /\ op.arg = 9
    /\ console.console_cols = 9
    /\ console.current_col = 8
    /\ console.current_line = 2
    /\ console.total_chars = 2

-----------------------------------------------------------------------------
(* C35: console_putchar('\b') leaves the console unchanged when            *)
(* current_col = 0; otherwise it decrements current_col and makes the cell *)
(* under the new cursor, and no other, a blank in the pending colours; in  *)
(* both cases current_line, display_start and scroll_position are          *)
(* unchanged.                                                              *)
C35_Backspace ==
    [][(PutCharStep /\ op'.arg = 8) =>
          /\ console'.current_line = console.current_line
          /\ SameWindow(console, console')
          /\ IF console.current_col = 0
             THEN console' = console
             ELSE /\ console'.current_col = console.current_col - 1
                  /\ \A l \in 0 .. console.buffer_lines - 1 : \A col \in Columns(console) :
                        CellOf(console', l, col) =
                           IF l = console.current_line /\ col = console.current_col - 1
                           THEN PendingBlank(console)
                           ELSE CellOf(console, l, col)]_vars

(* A backspace on the second line has gone back over the one character    *)
(* written since the buffer was cleared and left a blank yellow on blue.   *)
C35_Witness ==
    /\ op.name = "console_putchar" /\ op.arg = 8
    /\ console.current_line = 1
    /\ console.current_col = 0
    /\ console.total_chars = 1
    /\ DOMAIN console.buffer = {console.console_cols}
    /\ CellOf(console, 1, 0) = [character |-> 32, foreground |-> COLOR_YELLOW,
                                background |-> COLOR_BLUE, attributes |-> 0]

-----------------------------------------------------------------------------
KeyStep ==
    op'.name = "handle_keyboard_input" /\ <<console, op>> # <<console', op'>>

(* after is before with the scroll command delta applied: the scroll       *)
(* offset moved by delta and kept between 0 and                            *)
(* max(0, current_line - console_rows + 1), and the window put on it when  *)
(* the offset has changed.                                                 *)
ScrollEffect(before, after, delta) ==
    LET top == Max(0, before.current_line - before.console_rows + 1)
        new == Min(Max(before.scroll_position + delta, 0), top)
    IN IF new # before.scroll_position
       THEN after.scroll_position = new /\ after.display_start = new
       ELSE SameWindow(before, after)

(* C36: on the emulator handle_keyboard_input maps 0x48 to scroll(-1),     *)
(* 0x50 to scroll(+1), 0x49 to scroll(-console_rows), 0x51 to              *)
(* scroll(+console_rows), 0x47 to display_start = scroll_position = 0 and  *)
(* 0x4F to display_start = max(0, current_line - console_rows + 1); every  *)
(* other scancode leaves the console unchanged; and no scancode changes    *)
(* anything but display_start and scroll_position.                         *)
C36_KeyTable ==
    [][(IsQemu /\ KeyStep) =>
          LET sc == op'.arg
          IN /\ console' = [console EXCEPT
                              !.display_start = console'.display_start,
                              !.scroll_position = console'.scroll_position]
             /\ CASE sc = 72 -> ScrollEffect(console, console', -1)
                  [] sc = 80 -> ScrollEffect(console, console', 1)
                  [] sc = 73 -> ScrollEffect(console, console', -console.console_rows)
                  [] sc = 81 -> ScrollEffect(console, console', console.console_rows)
                  [] sc = 71 -> /\ console'.display_start = 0
                                /\ console'.scroll_position = 0
                  [] sc = 79 -> console'.display_start =
                                   Max(0, console.current_line - console.console_rows + 1)
                  [] OTHER -> console' = console]_vars

(* Page-up has moved the window of the 2-row console from line 2 to the    *)
(* top of the buffer.                                                      *)
C36_Witness ==
    /\ IsQemu
    /\ op.name = "handle_keyboard_input" /\ op.arg = 73
    /\ op.pre = <<2, 2>>
    /\ console.console_rows = 2
    /\ console.display_start = 0
    /\ console.scroll_position = 0
    /\ console.current_line = 3

-----------------------------------------------------------------------------
(* SpecWheel: newlines and mouse packets on the emulator, on a display of  *)
(* 2 x 1 cells.  Mouse registers <<status, data>>: RXFULL clear; RXFULL    *)
(* set with 0x02 (right button, or +2) and 0xFD (every button but the      *)
(* right one, or -3).                                                      *)
WheelWords == {<<67, 2>>} \cup {<<83, b>> : b \in {2, 253}}

OneRowDisplay == <<2 * FONT_WIDTH, FONT_HEIGHT + STATUS_BAR_HEIGHT>>

InitWheel == ConsoleInit({QemuFixture}, {OneRowDisplay}, BufferLines)

NextWheel ==
    \/ PutChar(10)
    \/ \E w \in WheelWords : Mouse(w)

SpecWheel == InitWheel /\ [][NextWheel]_vars

MouseStep ==
    op'.name = "handle_mouse_input" /\ <<console, op, packet_index>> # <<console', op', packet_index'>>

(* C37: the step of handle_mouse_input that completes a packet issues a    *)
(* scroll command exactly when bit 1 of the button byte is set and the     *)
(* vertical delta is not 0: scroll(+3) for a positive delta, scroll(-3)    *)
(* for a negative one; otherwise, and on every step that does not complete *)
(* a packet, scroll_position and display_start are unchanged.              *)
C37_WheelScroll ==
    [][MouseStep =>
          IF op'.arg # 0 /\ packet_index = 2
          THEN LET dy == Int8(op'.arg)
               IN IF (mouse_packet[0] \div 2) % 2 = 1 /\ dy # 0
                  THEN ScrollEffect(console, console', IF dy > 0 THEN 3 ELSE -3)
                  ELSE SameWindow(console, console')
          ELSE SameWindow(console, console')]_vars

(* A packet with the right button and a delta of +2 has moved the window   *)
(* from the top of the buffer to line 3, the last it can be on.            *)
C37_Witness ==
    /\ op.name = "handle_mouse_input" /\ op.arg = 2
    /\ packet_index = 0
    /\ mouse_packet[0] = 2
    /\ op.pre = <<0, 0>>
    /\ console.current_line = 3
    /\ console.scroll_position = 3
    /\ console.display_start = 3

-----------------------------------------------------------------------------
(* SpecBlink: output to the emulator's console, then ticks of              *)
(* console_update with the keyboard idle or sending Home or End.           *)
MaxBlinkTicks == 100

BlinkKeys == {<<67, 71>>, <<83, 71>>, <<83, 79>>}

BlinkUpdate(k) == ConsoleUpdateUpTo(k, <<67, 130>>, MaxBlinkTicks)

NextBlink ==
    \/ \E c \in {10, 97} : TickPutChar(c)
    \/ \E k \in BlinkKeys : BlinkUpdate(k)

SpecBlink == InitMouse /\ [][NextBlink]_vars

TickStep == op'.name = "console_update" /\ console' # console

CursorOf(con) == <<con.current_line, con.current_col>>

(* C38: every tick of console_update increments cursor_blink_counter by    *)
(* one and then renders; the render draws no cell swapped but the one      *)
(* under the write cursor, and that one, when it is drawn, exactly when    *)
(* cursor_visible is true and bit 5 of the counter is set: tick n after    *)
(* initialisation draws it swapped for n in 32..63 and 96..127 and         *)
(* normally for n in 1..31 and 64..95.                                     *)
C38_CursorBlink ==
    /\ [][TickStep =>
             /\ console'.cursor_blink_counter = console.cursor_blink_counter + 1
             /\ hw'.swapped \subseteq {CursorOf(console')}
             /\ hw'.cursor_drawn =>
                   (CursorOf(console') \in hw'.swapped
                       <=> /\ console'.cursor_visible
                           /\ (console'.cursor_blink_counter \div 32) % 2 = 1)]_vars
    /\ []((Ticked /\ hw.cursor_drawn) =>
             (hw.swapped # {}
                 <=> console.cursor_blink_counter \in (32 .. 63) \cup (96 .. 127)))

(* Tick 96 has drawn the cursor swapped again, on the last column of the   *)
(* second line.                                                            *)
C38_Witness ==
    /\ Ticked
    /\ console.cursor_blink_counter = 96
    /\ console.current_line = 1
    /\ console.current_col = 1
    /\ hw.cursor_drawn
    /\ hw.swapped = {<<1, 1>>}

-----------------------------------------------------------------------------
(* C39: no pixel that clear_screen, render_console, draw_status_bar or     *)
(* draw_char_at stores lies outside the width x height pixels of the       *)
(* framebuffer, whatever geometry the negotiation installed.               *)
C39_PixelsWithinFramebuffer == ~hw.pixels_beyond

(* With a height of at least the status bar's no pixel is stored outside   *)
(* the framebuffer.                                                        *)
PixelsWithinTallFramebuffer ==
    console.height >= STATUS_BAR_HEIGHT => ~hw.pixels_beyond

-----------------------------------------------------------------------------
(* The allocator of src/memory.c, which src2/memory.c repeats line by      *)
(* line, in the build where size_t and pointers have 32 bits.  Addresses   *)
(* are byte offsets from the heap's base.  A heap is heap_initialized,     *)
(* free_list, headers (the block_header_t at each address where malloc or  *)
(* init_heap has written one) and allocated, the pointers malloc has       *)
(* returned and free has not been given yet.  calls counts the calls of   *)
(* malloc, and wrapped tells that one of them asked for so much that its   *)
(* block size wrapped; neither is in the program.                          *)
HEAP_SIZE   == 2097152
BLOCK_SIZE  == 16
HEADER_SIZE == 12
NULL        == -1

ZeroHeap ==
    [heap_initialized |-> FALSE, free_list |-> NULL,
     headers |-> [a \in {} |-> 0], allocated |-> {},
     calls |-> 0, wrapped |-> FALSE]

(* *header = v *)
store_header(headers, a, v) ==
    [x \in DOMAIN headers \cup {a} |-> IF x = a THEN v ELSE headers[x]]

(* init_heap *)
init_heap(h) ==
    IF h.heap_initialized THEN h
    ELSE [h EXCEPT !.free_list = 0,
                   !.headers = store_header(@, 0, [size |-> HEAP_SIZE,
                                                   is_free |-> TRUE,
                                                   next |-> NULL]),
                   !.heap_initialized = TRUE]

(* malloc, line 82:                                                        *)
(* (size + sizeof(block_header_t) + (BLOCK_SIZE-1)) & ~(BLOCK_SIZE-1)      *)
(* in size_t.                                                              *)
total_size(size) ==
    LET s == WordAdd(size, WordOf(HEADER_SIZE + BLOCK_SIZE - 1))
    IN <<s[1], s[2] - (s[2] % BLOCK_SIZE)>>

(* size + sizeof(block_header_t) + (BLOCK_SIZE-1) exceeds SIZE_MAX *)
size_wraps(size) ==
    WordLess(WordAdd(size, WordOf(HEADER_SIZE + BLOCK_SIZE - 1)), size)

(* curr->size >= total, for a block size below 2^31 and a 32-bit total *)
size_at_least(block_size, total) ==
    total[1] < 32768 /\ block_size >= total[1] * H16 + total[2]

(* malloc, lines 87-106: the first block from curr on that is free and     *)
(* large enough, NULL when the list ends before one is found; hangs when   *)
(* the loop never ends, the list running in a cycle.                       *)
RECURSIVE first_fit(_, _, _, _)
first_fit(h, curr, total, steps) ==
    IF curr = NULL THEN [block |-> NULL, hangs |-> FALSE]
    ELSE IF h.headers[curr].is_free /\ size_at_least(h.headers[curr].size, total)
    THEN [block |-> curr, hangs |-> FALSE]
    ELSE IF steps > Cardinality(DOMAIN h.headers)
    THEN [block |-> NULL, hangs |-> TRUE]
    ELSE first_fit(h, h.headers[curr].next, total, steps + 1)

(* malloc, lines 89-102: the split of the block found and its allocation. *)
take_block(h, curr, total) ==
    LET t   == total[1] * H16 + total[2]
        blk == h.headers[curr]
        hs1 == IF blk.size >= t + BLOCK_SIZE + HEADER_SIZE
               THEN LET next == curr + t
                        a == store_header(h.headers, next,
                                 [size |-> blk.size - t, is_free |-> TRUE,
                                  next |-> blk.next])
                        b == [a EXCEPT ![curr].size = t]
                    IN [b EXCEPT ![curr].next = next]
               ELSE h.headers
    IN [h EXCEPT !.headers = [hs1 EXCEPT ![curr].is_free = FALSE],
                 !.allocated = @ \cup {curr + HEADER_SIZE}]

(* malloc: the heap afterwards and the pointer returned. *)
malloc(h0, size) ==
    LET h == init_heap(h0)
        total == total_size(size)
        f == first_fit(h, h.free_list, total, 0)
    IN IF size = WORD_ZERO THEN [heap |-> h, ptr |-> NULL, hangs |-> FALSE]
       ELSE IF f.hangs THEN [heap |-> h, ptr |-> NULL, hangs |-> TRUE]
       ELSE IF f.block = NULL THEN [heap |-> h, ptr |-> NULL, hangs |-> FALSE]
       ELSE [heap |-> take_block(h, f.block, total),
             ptr |-> f.block + HEADER_SIZE, hangs |-> FALSE]

(* free, lines 141-152: the first block from curr on, and before header,   *)
(* that is free and ends where header starts; NULL when there is none.     *)
RECURSIVE find_prev(_, _, _, _)
find_prev(headers, curr, header, steps) ==
    IF curr = NULL \/ curr = header THEN [block |-> NULL, hangs |-> FALSE]
    ELSE IF headers[curr].is_free /\ curr + headers[curr].size = header
    THEN [block |-> curr, hangs |-> FALSE]
    ELSE IF steps > Cardinality(DOMAIN headers)
    THEN [block |-> NULL, hangs |-> TRUE]
    ELSE find_prev(headers, headers[curr].next, header, steps + 1)

(* free of a pointer malloc returned: the heap afterwards.  The header of  *)
(* a block that a merge absorbs stays in memory as it was.                 *)
free(h, ptr) ==
    LET header == ptr - HEADER_SIZE
        hs0 == [h.headers EXCEPT ![header].is_free = TRUE]
        nx  == hs0[header].next
        hs1 == IF /\ nx # NULL
                  /\ hs0[nx].is_free
                  /\ header + hs0[header].size = nx
               THEN LET a == [hs0 EXCEPT ![header].size = @ + hs0[nx].size]
                        b == [a EXCEPT ![header].next = a[nx].next]
                    IN b
               ELSE hs0
        p   == find_prev(hs1, h.free_list, header, 0)
        hs2 == IF p.block # NULL
               THEN LET a == [hs1 EXCEPT ![p.block].size = @ + hs1[header].size]
                        b == [a EXCEPT ![p.block].next = hs1[header].next]
                    IN b
               ELSE hs1
    IN [heap |-> [h EXCEPT !.headers = hs2, !.allocated = @ \ {ptr}],
        hangs |-> p.hangs]

(* SpecHeap: calls of malloc and free.  mem is the heap, op.arg the        *)
(* pointer malloc returned or free was given.  Requests of 1, 40 and       *)
(* 2 MB - 28 bytes, which takes the whole heap, of 0xFFFFFFF0 and          *)
(* 0xFFFFFFFF bytes, and of 0.  A call that never returns is no step.      *)
(* At most MaxLive pointers are allocated at a time and malloc is called   *)
(* at most MaxCalls times.                                                 *)
RequestSizes ==
    {<<0, 1>>, <<0, 40>>, <<31, 65508>>, <<65535, 65520>>, WORD_ONES, WORD_ZERO}

MaxLive == 3

MaxCalls == 5

InitHeap ==
    /\ mem = ZeroHeap
    /\ current_platform = ZeroPlatform
    /\ console = ZeroConsole
    /\ mouse_packet = [i \in 0..2 |-> 0]
    /\ packet_index = 0
    /\ op = Op("main", NULL, NoPre)
    /\ boot = BootAt("detect")
    /\ hw = QuietHardware

Malloc(size) ==
    /\ Cardinality(mem.allocated) < MaxLive
    /\ mem.calls < MaxCalls
    /\ ~malloc(mem, size).hangs
    /\ mem' = [malloc(mem, size).heap EXCEPT
                  !.calls = @ + 1,
                  !.wrapped = @ \/ (size # WORD_ZERO /\ size_wraps(size))]
    /\ op' = Op("malloc", malloc(mem, size).ptr, NoPre)
    /\ UNCHANGED <<current_platform, console, mouse_packet, packet_index, boot, hw>>

Free(ptr) ==
    /\ ptr \in mem.allocated
    /\ ~free(mem, ptr).hangs
    /\ mem' = free(mem, ptr).heap
    /\ op' = Op("free", ptr, NoPre)
    /\ UNCHANGED <<current_platform, console, mouse_packet, packet_index, boot, hw>>

NextHeap ==
    \/ \E size \in RequestSizes : Malloc(size)
    \/ \E ptr \in mem.allocated : Free(ptr)

SpecHeap == InitHeap /\ [][NextHeap]_vars

(* The addresses of the blocks of the list from curr on, as far as the     *)
(* list has no cycle.                                                      *)
RECURSIVE BlockList(_, _, _)
BlockList(h, curr, seen) ==
    IF curr = NULL \/ curr \in seen THEN <<>>
    ELSE <<curr>> \o BlockList(h, h.headers[curr].next, seen \cup {curr})

Blocks(h) == BlockList(h, h.free_list, {})

EndOf(h, a) == a + h.headers[a].size

(* The list from the heap's base tiles the heap: it ends, its first block  *)
(* is at the base, each block starts where the one before it ends, and the *)
(* last ends where the heap does.                                          *)
Tiles(h) ==
    LET b == Blocks(h)
    IN /\ b # <<>>
       /\ b[1] = 0
       /\ \A k \in 1 .. Len(b) - 1 :
             /\ h.headers[b[k]].next = b[k + 1]
             /\ EndOf(h, b[k]) = b[k + 1]
       /\ h.headers[b[Len(b)]].next = NULL
       /\ EndOf(h, b[Len(b)]) = HEAP_SIZE

(* Every allocated pointer is the payload of a block of the list that is   *)
(* not free, and no two allocated blocks share a byte.                     *)
AllocatedApart(h) ==
    LET b == Blocks(h)
        at(p) == p - HEADER_SIZE
    IN /\ \A p \in h.allocated :
             /\ \E k \in 1 .. Len(b) : b[k] = at(p)
             /\ ~h.headers[at(p)].is_free
             /\ EndOf(h, at(p)) >= p
       /\ \A p, q \in h.allocated :
             p # q => (EndOf(h, at(p)) <= at(q) \/ EndOf(h, at(q)) <= at(p))

NoAdjacentFree(h) ==
    LET b == Blocks(h)
    IN \A k \in 1 .. Len(b) - 1 :
          ~(h.headers[b[k]].is_free /\ h.headers[b[k + 1]].is_free)

OneFreeBlock(h) ==
    /\ h.free_list = 0
    /\ h.headers[0] = [size |-> HEAP_SIZE, is_free |-> TRUE, next |-> NULL]
    /\ Blocks(h) = <<0>>

HeapSound(h) ==
    h.heap_initialized =>
        /\ Tiles(h)
        /\ AllocatedApart(h)
        /\ NoAdjacentFree(h)
        /\ h.allocated = {} => OneFreeBlock(h)

(* C40: after any calls of malloc and free, free being given only pointers *)
(* that are allocated, the block list from the heap's base tiles the heap, *)
(* allocated blocks do not overlap, no two adjacent blocks are both free,  *)
(* and with nothing allocated the heap is one free block of HEAP_SIZE.     *)
C40_HeapSound == HeapSound(mem)

(* The same as long as no request was so large that its block size wraps. *)
HeapSoundWithoutWrap ==
    ~mem.wrapped => HeapSound(mem)

=============================================================================
